---------------------------- MODULE Spec2Model ----------------------------
(***************************************************************************)
(* A model of CyberGrape: the u-blox line decoder, the Hdm update buffer,  *)
(* the UpdateAccumulator, the Sphericalizer, the GrapeFile codec and the   *)
(* Component pipeline.                                                     *)
(*                                                                         *)
(* Conventions.                                                            *)
(*  - An Id (u64 / usize, a 48-bit device address) is the pair             *)
(*    <<hi, lo>> of its two 24-bit halves; ids compare lexicographically.  *)
(*  - A Radian (f64 / f32) is an integer count of 1e-4 rad (fixed point):  *)
(*    PI is 31416.  Divisions round down.                                  *)
(*  - An f32 sample of a GrapeFile is the record of its IEEE-754 fields    *)
(*    [sign, exp, mant].                                                   *)
(*  - A byte is an integer in 0..255; a character of a protocol line is a  *)
(*    one-character string.                                                *)
(*  - panics are recorded as the value "panic" of the operation's result.  *)
(***************************************************************************)
EXTENDS Integers, Sequences, FiniteSets, TLC

VARIABLES
    \* ---- Hdm (src/src/hdm.rs)
    msgs,                 \* Hdm.msgs: VecDeque<Update>, index 1 is the front
    \* ---- UpdateAccumulator (src/src/update_accumulator.rs)
    accumulated_updates,  \* HashMap<(Id, Id), VecDeque<Update>>
    status,               \* the Vec<Update> last returned by get_status (as a set)
    \* ---- history of the Hdm / accumulator runs
    nAdded,               \* number of add_update calls so far
    delivered,            \* arrival numbers returned by Hdm::next, in order
    nStatus,              \* number of get_status calls so far
    lastDrained,          \* number of updates the last get_status drained
    feedKey,              \* the (src, dst) key the windowing run feeds
    appended,             \* key -> every update ever appended to its window
    \* ---- listener thread (src/src/bin/cybergrape/main.rs, listen_on_port)
    lineIn,               \* the line last handed to HardwareEvent::from_str
    parsed,               \* what from_str made of it
    listenerAlive,        \* FALSE once the listener thread has panicked
    nLines,               \* number of lines read so far
    read_buf,             \* the listener's line buffer
    portBytes,            \* every byte the serial port delivered, in order
    nReads,               \* number of port.read calls that returned bytes
    \* ---- GrapeFile codec (src/src/spatial_data_format.rs)
    builder,              \* the GrapeFileBuilder
    gfile,                \* what build / build_truncate / build_extend returned
    fileBytes,            \* the bytes to_file wrote
    readBack,             \* what from_file returned
    codecPc,              \* "builder", "built", "written" or "read"
    buildKind,            \* which build made gfile: "none" before any
    streamsOut,           \* what streams_native_sample_rate returned last
    resampled,            \* what streams_with_sample_rate returned last
    nCuts,                \* bytes cut off the written file
    \* ---- Sphericalizer (src/src/sphericalizer.rs)
    tag_settings,         \* Sphericalizer.tag_settings: (gain, range) per tag
    qres,                 \* what the last query returned
    sorted,               \* the sorted updates of the last query
    \* ---- Pipeline (src/src/component.rs)
    chan,                 \* the values buffered on each channel
    txAlive,              \* channel -> its Sender is not dropped
    rxAlive,              \* channel -> its Receiver is not dropped
    pc,                   \* stage -> "recv", "send", "finalize", "exit", "done"
    held,                 \* stage -> <<out_data>> between convert and send
    finalized,            \* stage -> number of finalize calls
    warned,               \* stage -> number of failed sends
    converted,            \* stage -> the values convert returned, in order
    sent,                 \* the values the test thread sent
    received,             \* the values the test thread received
    bufferedAtDrop,       \* values buffered on channel 0 when its Sender dropped
    \* ---- TDBufMeta (src/src/time_domain_buffer.rs)
    tdbuf,                \* the TDBufMeta: [data, num_tags]
    tdConsumed,           \* TRUE once dump has moved the buffer away
    tdResult,             \* "ok" or "panic": how the last call ended
    dumped,               \* what the dump calls returned, in order
    offered,              \* every row handed to add, in order
    \* ---- history of the calls on the shared Hdm
    hdmOp,                \* the last call: "add", "some", "none", "clear", "status"
    cleared,              \* arrival numbers of the updates a clear removed
    clearedAt,            \* number of add_update calls before the last clear
    \* ---- the handle on the Hdm and the get_status call in progress
    holder,               \* who holds the handle: "none" or "accumulator"
    queuedAtCall,         \* arrival numbers queued when get_status was called
    taken,                \* arrival numbers the call has popped, in order
    \* ---- binaural branch of main (src/src/bin/cybergrape/main.rs)
    audio,                \* [sound_data, samp_rate, update_rate]: the lengths of
                          \* the audio files and the two rates
    plan,                 \* num_updates_needed and samples_per_update
    gathered,             \* turns of the gathering loop taken so far
    spatial_data,         \* number of rows in the time-domain buffer
    processed,            \* rows post-processed so far
    postResult,           \* "ok" or "panic": how post-processing has gone
    \* ---- fold_until_stop (src/src/gui/fold_until_stop.rs)
    workerPc,             \* the spawned thread: "loop", "in_f", "check", "exit"
    callerPc,             \* the caller: "ui", "stop", "recv", "join", "done"
    stop_rx,              \* the messages sent on stop_tx and not yet received
    res_rx,               \* the values sent on res_tx and not yet received
    foldVal,              \* val of the worker: the state of the fold
    foldRes,              \* res of the caller: <<>> before recv returned
    applied,              \* number of complete applications of f
    appliedAtStop,        \* that number when the stop message was sent
    resSent               \* every value sent on res_tx, in order

hdmVars == <<msgs, nAdded, delivered>>
accVars == <<accumulated_updates, status, nStatus, lastDrained, feedKey, appended>>
decVars == <<lineIn, parsed, listenerAlive, nLines, read_buf, portBytes, nReads>>
codecVars == <<builder, gfile, fileBytes, readBack, codecPc, nCuts,
               buildKind, streamsOut, resampled>>
sphVars == <<tag_settings, qres, sorted>>
tdVars == <<tdbuf, tdConsumed, tdResult, dumped, offered>>
callVars == <<hdmOp, cleared, clearedAt>>
drainVars == <<holder, queuedAtCall, taken>>
postVars == <<audio, plan, gathered, spatial_data, processed, postResult>>
foldVars == <<workerPc, callerPc, stop_rx, res_rx, foldVal, foldRes, applied,
              appliedAtStop, resSent>>
pipeVars == <<chan, txAlive, rxAlive, pc, held, finalized, warned, converted,
              sent, received, bufferedAtDrop>>

vars == <<msgs, accumulated_updates, status, nAdded, delivered, nStatus,
          lastDrained, feedKey, appended, lineIn, parsed, listenerAlive, nLines,
          read_buf, portBytes, nReads,
          builder, gfile, fileBytes, readBack, codecPc, nCuts,
          buildKind, streamsOut, resampled,
          tag_settings, qres, sorted,
          chan, txAlive, rxAlive, pc, held, finalized, warned, converted,
          sent, received, bufferedAtDrop,
          tdbuf, tdConsumed, tdResult, dumped, offered,
          hdmOp, cleared, clearedAt, holder, queuedAtCall, taken,
          audio, plan, gathered, spatial_data, processed, postResult,
          workerPc, callerPc, stop_rx, res_rx, foldVal, foldRes, applied,
          appliedAtStop, resSent>>

---------------------------------------------------------------------------
(* Bounds of the model *)

MaxAdds == 4
MaxCallAdds == 3
MaxDrainAdds == 4
MaxFeed == 52
MaxStatus == 2
MaxIdLen == 13
MaxLines == 2
MaxReads == 3
MaxStreams == 2
MaxCuts == 5
MaxBuildStreams == 3
MaxRateStreams == 2
MaxFactor == 4
MaxSphAdds == 4
MaxQueries == 2
MaxTickAdds == 4
MaxTicks == 2
MaxSamples == 9
MaxSampRate == 4
MaxUpdateRate == 2
MaxGather == 2
MaxApply == 12
MaxSend == 3
MaxTdAdds == 3

---------------------------------------------------------------------------
(* Ids and angles *)

PI == 31416

BACK_ANTENNA == <<7085547, 10984390>>
FRONT_ANTENNA == <<7085547, 10984358>>
OTHER_ANTENNA == <<7085547, 10984400>>
TAG_1 == <<7085547, 11513572>>
TAG_2 == <<7085547, 11514482>>

IdLess(a, b) == a[1] < b[1] \/ (a[1] = b[1] /\ a[2] < b[2])

\* angle as f64 * (PI / 180.0)
DegToRad(angle) == (angle * PI) \div 180

---------------------------------------------------------------------------
(* Hdm *)

\* The Update that add_update builds from a UUDFEvent.  arr is history: the
\* arrival number of the update (not a field of the program's Update).
NewUpdate(event, arr) ==
    [src |-> event.anchor_id,
     dst |-> event.tag_id,
     azm |-> DegToRad(event.angle_1),
     elv |-> DegToRad(event.angle_2),
     arr |-> arr]

\* VecDeque::push_front
PushFront(q, u) == <<u>> \o q

\* Hdm::add_update: self.msgs.lock().unwrap().push_front(new_update)
Enqueue(q, u) == PushFront(q, u)

AddUpdate(event) ==
    /\ msgs' = Enqueue(msgs, NewUpdate(event, nAdded + 1))
    /\ nAdded' = nAdded + 1
    /\ UNCHANGED <<delivered>>

\* a next that returns the front update and leaves it in the buffer
HdmNextFront ==
    /\ msgs # <<>>
    /\ delivered' = Append(delivered, Head(msgs).arr)
    /\ UNCHANGED <<msgs, nAdded>>

\* Hdm::next: self.msgs.lock().unwrap().pop_front(); a None leaves all as is
HdmNext ==
    /\ msgs # <<>>
    /\ delivered' = Append(delivered, Head(msgs).arr)
    /\ msgs' = Tail(msgs)
    /\ UNCHANGED <<nAdded>>

\* Hdm::next on an empty buffer: None
HdmNextNone ==
    /\ msgs = <<>>
    /\ UNCHANGED <<msgs, nAdded, delivered>>

\* a clear that keeps the update at the front
HdmClearButFront ==
    /\ msgs' = (IF msgs = <<>> THEN <<>> ELSE <<Head(msgs)>>)
    /\ UNCHANGED <<nAdded, delivered>>

\* Hdm::clear
HdmClear ==
    /\ msgs' = <<>>
    /\ UNCHANGED <<nAdded, delivered>>

\* The arrival numbers of the updates of a buffer.
Arrivals(q) == {q[i].arr : i \in 1..Len(q)}

\* The measurements the buffer run draws its events from.
HdmEvents ==
    { [anchor_id |-> a, tag_id |-> TAG_1, angle_1 |-> g, angle_2 |-> 0] :
        a \in {BACK_ANTENNA, FRONT_ANTENNA}, g \in {-20, 20} }

---------------------------------------------------------------------------
(* UpdateAccumulator *)

K == 50

Min(a, b) == IF a < b THEN a ELSE b

Key(u) == <<u.src, u.dst>>

\* One turn of the loop of get_status: append update to the window of its
\* key, creating the window when the entry is vacant.
Accumulate(acc, update) ==
    IF Key(update) \in DOMAIN acc
    THEN [acc EXCEPT ![Key(update)] = Append(@, update)]
    ELSE [k \in DOMAIN acc \cup {Key(update)} |->
            IF k = Key(update) THEN <<update>> ELSE acc[k]]

\* for update in self.hdm_handle.borrow_mut().by_ref(): pops from the front
\* until the buffer is empty.
RECURSIVE Drain(_, _)
Drain(q, acc) ==
    IF q = <<>> THEN acc ELSE Drain(Tail(q), Accumulate(acc, Head(q)))

Reverse(s) == [i \in 1..Len(s) |-> s[Len(s) + 1 - i]]

\* v.iter().rev().take(50)
Taken(v) == SubSeq(Reverse(v), 1, Min(K, Len(v)))

RECURSIVE SumAzm(_)
SumAzm(s) == IF s = <<>> THEN 0 ELSE Head(s).azm + SumAzm(Tail(s))

RECURSIVE SumElv(_)
SumElv(s) == IF s = <<>> THEN 0 ELSE Head(s).elv + SumElv(Tail(s))

WindowMeanSwapped(v) ==
    [src |-> Taken(v)[1].dst,
     dst |-> Taken(v)[1].src,
     azm |-> SumAzm(Taken(v)) \div Len(Taken(v)),
     elv |-> SumElv(Taken(v)) \div Len(Taken(v))]

\* The closure of get_status: the mean of the taken updates, with the src and
\* dst of the first of them (..l keeps the left operand's other fields).
WindowMean(v) ==
    [src |-> Taken(v)[1].src,
     dst |-> Taken(v)[1].dst,
     azm |-> SumAzm(Taken(v)) \div Len(Taken(v)),
     elv |-> SumElv(Taken(v)) \div Len(Taken(v))]

\* if len > 50 { v.drain(0..len - 50) }
TrimNewest(v) == IF Len(v) > K THEN SubSeq(v, 1, K) ELSE v
Trim(v) == IF Len(v) > K THEN SubSeq(v, Len(v) - K + 1, Len(v)) ELSE v

\* UpdateAccumulator::get_status, the whole call.
GetStatus ==
    LET drained == Drain(msgs, accumulated_updates) IN
    /\ status' = { WindowMean(drained[k]) : k \in DOMAIN drained }
    /\ accumulated_updates' = [k \in DOMAIN drained |-> Trim(drained[k])]
    /\ appended' = Drain(msgs, appended)
    /\ msgs' = <<>>
    /\ lastDrained' = Len(msgs)
    /\ nStatus' = nStatus + 1
    /\ UNCHANGED <<nAdded, delivered, feedKey>>

\* get_status turn by turn, next to the listener thread. Both reach the Hdm
\* through one handle: the listener takes it for a single add_update
\* (hdm.lock().unwrap().add_update(e)); get_status takes it in the head of its
\* for loop (self.hdm_handle.borrow_mut().by_ref()), a temporary that lives
\* until the loop is left.

\* a listener that locks only the buffer inside the Hdm
HdmLockMsgsOnly == TRUE

\* The handle can be taken.
HdmLock == holder = "none"

\* The listener thread: lock the handle, add_update, unlock.
ListenerAdd(event) ==
    /\ HdmLock
    /\ AddUpdate(event)
    /\ UNCHANGED <<accVars, drainVars>>

\* get_status is called: the head of the for loop borrows the handle.
StatusBegin ==
    /\ holder = "none"
    /\ holder' = "accumulator"
    /\ queuedAtCall' = Arrivals(msgs)
    /\ taken' = <<>>
    /\ UNCHANGED <<hdmVars, accVars>>

\* One turn of the loop: next() returned Some(update).
StatusTurn ==
    /\ holder = "accumulator"
    /\ HdmNext
    /\ accumulated_updates' = Accumulate(accumulated_updates, Head(msgs))
    /\ appended' = Accumulate(appended, Head(msgs))
    /\ taken' = Append(taken, Head(msgs).arr)
    /\ UNCHANGED <<status, nStatus, lastDrained, feedKey, holder, queuedAtCall>>

\* next() returned None: the loop is left, the handle released, the means
\* are taken, the windows trimmed, and get_status returns.
StatusReturn ==
    /\ holder = "accumulator"
    /\ HdmNextNone
    /\ status' = { WindowMean(accumulated_updates[k]) :
                     k \in DOMAIN accumulated_updates }
    /\ accumulated_updates' =
          [k \in DOMAIN accumulated_updates |-> Trim(accumulated_updates[k])]
    /\ lastDrained' = Len(taken)
    /\ nStatus' = nStatus + 1
    /\ holder' = "none"
    /\ UNCHANGED <<feedKey, appended, queuedAtCall, taken>>

\* The n-th measurement of the windowing run: every one has its own angles.
WindowEvent(n, key) ==
    [anchor_id |-> key[1], tag_id |-> key[2], angle_1 |-> n, angle_2 |-> 0 - 2 * n]

WindowKeys == {<<BACK_ANTENNA, TAG_1>>, <<FRONT_ANTENNA, TAG_1>>, <<BACK_ANTENNA, TAG_2>>}

---------------------------------------------------------------------------
(* Protocol decoder (nom combinators over a line of characters) *)

IdLen == 12

Digits == <<"0", "1", "2", "3", "4", "5", "6", "7", "8", "9">>
UpperHex == Digits \o <<"A", "B", "C", "D", "E", "F">>
LowerHex == Digits \o <<"a", "b", "c", "d", "e", "f">>

Range(s) == {s[i] : i \in 1..Len(s)}

\* The characters is_digit, is_hex_digit and is_alphanumeric accept, among
\* the characters the lines of the model are made of.
DigitChars == Range(Digits)
HexDigitChars == Range(UpperHex) \cup Range(LowerHex)
AlphanumericChars ==
    DigitChars \cup
    {"a", "b", "c", "d", "e", "f", "g", "h", "x", "y", "z",
     "A", "B", "C", "D", "E", "F", "G", "P", "U", "X", "Y", "Z"}

HexValue(c) ==
    CHOOSE v \in 0..15 : UpperHex[v + 1] = c \/ LowerHex[v + 1] = c

\* The results of a parser: Ok((rest, val)), Err(_), or a panic.
POk(val, rest) == [tag |-> "ok", val |-> val, rest |-> rest]
PErr == [tag |-> "err", val |-> <<>>, rest |-> <<>>]
PPanic == [tag |-> "panic", val |-> <<>>, rest |-> <<>>]
NoResult == [tag |-> "none", val |-> <<>>, rest |-> <<>>]

\* Length of the longest prefix of s whose characters are in `chars`.
RECURSIVE RunLen(_, _)
RunLen(s, chars) ==
    IF s # <<>> /\ Head(s) \in chars THEN 1 + RunLen(Tail(s), chars) ELSE 0

Drop(s, n) == SubSeq(s, n + 1, Len(s))
Take(s, n) == SubSeq(s, 1, IF n < Len(s) THEN n ELSE Len(s))

\* nom::bytes::complete::tag
ParseTag(t, s) ==
    IF Take(s, Len(t)) = t THEN POk(t, Drop(s, Len(t))) ELSE PErr

\* nom::character::complete::char
ParseChar(c, s) ==
    IF s # <<>> /\ Head(s) = c THEN POk(c, Tail(s)) ELSE PErr

\* A run of n characters split off s: an error when shorter than `least`.
SplitRun(s, n, least) ==
    IF n < least THEN PErr ELSE POk(Take(s, n), Drop(s, n))

\* nom::character::complete::hex_digit1
HexDigit1(s) == SplitRun(s, RunLen(s, HexDigitChars), 1)

\* nom::character::complete::alphanumeric0
Alphanumeric0(s) == SplitRun(s, RunLen(s, AlphanumericChars), 0)

RECURSIVE Number(_, _)
Number(d, radix) ==
    IF d = <<>> THEN 0
    ELSE radix * Number(Take(d, Len(d) - 1), radix) + HexValue(d[Len(d)])

\* u64::from_str_radix(d, 16) of exactly 12 hex digits, as the pair of the
\* values of the first six and the last six digits.
FromStrRadix16(d) == <<Number(Take(d, 6), 16), Number(Drop(d, 6), 16)>>

\* The closure of parse_id: u64::from_str_radix("hey", 0) is called for a run
\* that is not 12 digits long; from_str_radix asserts 2 <= radix <= 36, so
\* the call panics.
IdOfDigits(r) ==
    IF r.tag # "ok" THEN r
    ELSE IF Len(r.val) = IdLen THEN POk(FromStrRadix16(r.val), r.rest)
    ELSE PPanic

\* parse_id: map_res(hex_digit1, closure)
ParseId(s) == IdOfDigits(HexDigit1(s))

NumberOfRun(r) ==
    IF r.tag # "ok" \/ Len(r.val) > 9 THEN PErr ELSE POk(Number(r.val, 10), r.rest)

\* nom::character::complete::u32 (a number of more than nine digits is taken
\* to overflow)
ParseU32(s) == NumberOfRun(SplitRun(s, RunLen(s, DigitChars), 1))

SignLen(s) == IF s # <<>> /\ Head(s) \in {"+", "-"} THEN 1 ELSE 0

Signed(s, r) ==
    IF r.tag = "ok" /\ s # <<>> /\ Head(s) = "-" THEN POk(0 - r.val, r.rest) ELSE r

\* nom::character::complete::i32: an optional sign, then digits
ParseI32(s) == Signed(s, ParseU32(Drop(s, SignLen(s))))

TagUUDF == <<"+", "U", "U", "D", "F", ":">>
TagUUDFP == <<"+", "U", "U", "D", "F", "P", ":">>

\* The parsers a tuple is made of; `keep` tells whether the value is kept
\* (preceded and delimited drop the values of their delimiters).
Lit(t) == [p |-> "tag", arg |-> t, keep |-> FALSE]
Chr(c) == [p |-> "char", arg |-> c, keep |-> FALSE]
Field(p) == [p |-> p, arg |-> <<>>, keep |-> TRUE]

\* parse_quoted_id and parse_quoted_string: delimited(char('"'), p, char('"'))
QuotedField(p) == <<Chr("\""), Field(p), Chr("\"")>>

\* preceded(char(','), p)
CommaField(p) == <<Chr(","), Field(p)>>

\* The tuple of parse_uudf_event
UudfTuple ==
    <<Lit(TagUUDF), Field("parse_id")>>
    \o CommaField("i32") \o CommaField("i32") \o CommaField("i32")
    \o CommaField("i32") \o CommaField("u32")
    \o <<Chr(",")>> \o QuotedField("parse_id")
    \o <<Chr(",")>> \o QuotedField("alphanumeric0")
    \o CommaField("u32") \o CommaField("u32")

\* The tuple of parse_uudfp_event
UudfpTuple ==
    <<Lit(TagUUDFP), Field("parse_id")>> \o CommaField("hex_digit1")

RunParser(g, s) ==
    CASE g.p = "tag" -> ParseTag(g.arg, s)
      [] g.p = "char" -> ParseChar(g.arg, s)
      [] g.p = "parse_id" -> ParseId(s)
      [] g.p = "i32" -> ParseI32(s)
      [] g.p = "u32" -> ParseU32(s)
      [] g.p = "hex_digit1" -> HexDigit1(s)
      [] g.p = "alphanumeric0" -> Alphanumeric0(s)

\* nom::sequence::tuple: the parsers one after another, the first failure
\* (or panic) ending the run.
RECURSIVE RunTuple(_, _, _)
RECURSIVE AfterParser(_, _, _)
RunTuple(parsers, s, vals) ==
    IF parsers = <<>> THEN POk(vals, s)
    ELSE AfterParser(parsers, vals, RunParser(Head(parsers), s))

AfterParser(parsers, vals, r) ==
    IF r.tag # "ok" THEN r
    ELSE RunTuple(Tail(parsers), r.rest,
                  IF Head(parsers).keep THEN Append(vals, r.val) ELSE vals)

UUDFEvent(t) ==
    IF t.tag # "ok" THEN t
    ELSE POk([kind |-> "UUDFEvent",
              tag_id |-> t.val[1],
              rssi |-> t.val[2],
              angle_1 |-> t.val[3],
              angle_2 |-> t.val[4],
              reserved |-> t.val[5],
              channel |-> t.val[6],
              anchor_id |-> t.val[7],
              user_defined |-> t.val[8],
              timestamp |-> t.val[9],
              sequence |-> t.val[10]], t.rest)

UUDFPEvent(t) ==
    IF t.tag # "ok" THEN t
    ELSE POk([kind |-> "UUDFPEvent", tag_id |-> t.val[1]], t.rest)

\* parse_uudf_event
ParseUudfEvent(s) == UUDFEvent(RunTuple(UudfTuple, s, <<>>))

\* parse_uudfp_event
ParseUudfpEvent(s) == UUDFPEvent(RunTuple(UudfpTuple, s, <<>>))

\* nom::branch::alt: the second parser runs when the first one gives an error
Alt(a, s) == IF a.tag = "err" THEN ParseUudfpEvent(s) ELSE a

\* .finish(): the remaining input is dropped
Finish(r) == IF r.tag = "ok" THEN POk(r.val, <<>>) ELSE r

\* HardwareEvent::from_str
FromStr(s) == Finish(Alt(ParseUudfEvent(s), s))

\* The lines the listener run reads.
HexPool == <<"C", "C", "F", "9", "5", "7", "8", "E", "0", "D", "8", "A", "6", "c">>

IdRun(n) == [i \in 1..n |-> HexPool[((i - 1) % Len(HexPool)) + 1]]

NewLine == <<"\n">>

MeasurementLine(tag, anchor) ==
    TagUUDF \o tag
    \o <<",", "-", "4", "2", ",", "2", "0", ",", "0", ",", "-", "4", "3",
         ",", "3", "7", ",", "\"">>
    \o anchor
    \o <<"\"", ",", "\"", "\"", ",", "1", "5", "8", "6", "9", ",", "2", "3">>
    \o NewLine

HeartbeatLine(tag) == TagUUDFP \o tag \o <<",", "1", "9", "F", "F">> \o NewLine

GarbageLines ==
    { NewLine,
      <<"x", "y", "z">> \o NewLine,
      TagUUDF \o IdRun(IdLen) \o <<",", "-", "4", "2">> \o NewLine,
      TagUUDF \o IdRun(IdLen) \o <<",", "x">> \o NewLine,
      TagUUDF \o <<"Z", "Z">> \o NewLine }

TestLines ==
    { MeasurementLine(IdRun(n), IdRun(m)) :
        n \in 0..MaxIdLen, m \in {0, IdLen - 1, IdLen, IdLen + 1} }
    \cup { HeartbeatLine(IdRun(n)) : n \in 0..MaxIdLen }
    \cup GarbageLines

\* listen_on_port, for one line up to its newline: the line is decoded, a
\* measurement is pushed to the Hdm, anything else is only logged.  A panic
\* ends the listener thread.
Listen(l) ==
    LET res == FromStr(l) IN
    /\ listenerAlive
    /\ lineIn' = l
    /\ parsed' = res
    /\ nLines' = nLines + 1
    /\ listenerAlive' = (res.tag # "panic")
    /\ read_buf' = (IF res.tag = "panic" THEN l ELSE <<>>)
    /\ portBytes' = portBytes \o l
    /\ UNCHANGED nReads
    /\ IF res.tag = "ok" /\ res.val.kind = "UUDFEvent"
       THEN AddUpdate(res.val)
       ELSE UNCHANGED hdmVars

\* ---- listen_on_port, byte by byte

\* A byte that makes str::from_utf8 fail.
BAD_BYTE == "\\xFF"

\* str::from_utf8(&read_buf)
Utf8Ok(line) == \A i \in 1..Len(line) : line[i] # BAD_BYTE

\* The listener between two bytes: its line buffer, the Hdm queue and the
\* number of updates pushed, whether the thread still runs, and what the
\* last from_str returned.
Listener(buf, q, n, alive, last) ==
    [buf |-> buf, q |-> q, n |-> n, alive |-> alive, last |-> last]

\* The match on from_str(s), then read_buf.clear(); a panic inside from_str
\* unwinds the thread before the clear.
Decoded(st, line, res) ==
    IF res.tag = "panic" THEN Listener(line, st.q, st.n, FALSE, res)
    ELSE IF res.tag = "ok" /\ res.val.kind = "UUDFEvent"
    THEN Listener(<<>>, Enqueue(st.q, NewUpdate(res.val, st.n + 1)), st.n + 1,
                  TRUE, res)
    ELSE Listener(<<>>, st.q, st.n, TRUE, res)

\* if c == b'\n': the match on from_utf8
OnLine(st, line) ==
    IF Utf8Ok(line) THEN Decoded(st, line, FromStr(line))
    ELSE Listener(<<>>, st.q, st.n, TRUE, st.last)

\* read_buf.push(c); if c == b'\n' { ... }
OnByte(st, c) ==
    IF c = "\n" THEN OnLine(st, Append(st.buf, c))
    ELSE Listener(Append(st.buf, c), st.q, st.n, st.alive, st.last)

\* for &c in buffer.iter().take(read_len)
RECURSIVE Feed(_, _)
Feed(st, bytes) ==
    IF bytes = <<>> \/ ~st.alive THEN st
    ELSE Feed(OnByte(st, Head(bytes)), Tail(bytes))

AfterRead(st) ==
    /\ read_buf' = st.buf
    /\ msgs' = st.q
    /\ nAdded' = st.n
    /\ listenerAlive' = st.alive
    /\ parsed' = st.last

\* The port delivers a chunk of bytes; the listener thread, if it still
\* runs, reads it (one iteration of the loop of listen_on_port).
PortRead(chunk) ==
    /\ portBytes' = portBytes \o chunk
    /\ nReads' = nReads + 1
    /\ IF listenerAlive
       THEN AfterRead(Feed(Listener(read_buf, msgs, nAdded, TRUE, parsed), chunk))
       ELSE UNCHANGED <<read_buf, msgs, nAdded, listenerAlive, parsed>>
    /\ UNCHANGED <<lineIn, nLines, delivered>>

\* What the port delivers in the ingestion run: whole lines and pieces.
OtherId == Reverse(IdRun(IdLen))
GoodLine == MeasurementLine(IdRun(IdLen), OtherId)
IngestChunks ==
    { GoodLine,
      Take(GoodLine, 20),
      Drop(GoodLine, 20),
      MeasurementLine(OtherId, IdRun(IdLen)),
      MeasurementLine(IdRun(IdLen - 1), OtherId),
      HeartbeatLine(IdRun(IdLen)),
      <<"x", BAD_BYTE, "z">> \o NewLine,
      TagUUDF \o IdRun(IdLen) \o <<",", "x">> \o NewLine }

---------------------------------------------------------------------------
(* Spatial data format: GrapeFileBuilder, to_file, from_file *)

\* f32 values the streams of the model are made of, as IEEE-754 fields.
F32(sign, exp, mant) == [sign |-> sign, exp |-> exp, mant |-> mant]
ZERO == F32(0, 0, 0)                \* 0.0
A_FLOAT == F32(0, 130, 4276545)     \* 12.078431  (0x41414141)
NEG_HUGE == F32(1, 254, 0)          \* -2^127     (0xFF000000)
ONE_FF == F32(0, 127, 255)          \* 1.0000304  (0x3F8000FF)
A_NAN == F32(0, 255, 4194304)       \* NaN        (0x7FC00000)

\* f32::to_be_bytes
ToBeBytes(f) ==
    << f.sign * 128 + f.exp \div 2,
       (f.exp % 2) * 128 + f.mant \div 65536,
       (f.mant \div 256) % 256,
       f.mant % 256 >>

\* f32::from_le_bytes
FromLeBytes(bs) ==
    F32(bs[4] \div 128,
        (bs[4] % 128) * 2 + bs[3] \div 128,
        (bs[3] % 128) * 65536 + bs[2] * 256 + bs[1])

\* f32::from_be_bytes
FromBeBytes(bs) ==
    F32(bs[1] \div 128,
        (bs[1] % 128) * 2 + bs[2] \div 128,
        (bs[2] % 128) * 65536 + bs[3] * 256 + bs[4])

IsNaN(f) == f.exp = 255 /\ f.mant # 0

\* f32's PartialEq: a NaN equals nothing, +0.0 equals -0.0
F32Eq(a, b) ==
    /\ ~IsNaN(a)
    /\ ~IsNaN(b)
    /\ \/ a = b
       \/ a.exp = 0 /\ a.mant = 0 /\ b.exp = 0 /\ b.mant = 0

\* #[derive(PartialEq)] of GrapeFile: header == header, samples == samples
GrapeFileEq(f, g) ==
    /\ f.header = g.header
    /\ Len(f.samples) = Len(g.samples)
    /\ \A i \in 1..Len(f.samples) : F32Eq(f.samples[i], g.samples[i])

\* The names of the GrapeTag variants, as ron writes them (ASCII).
TagName(tag) ==
    CASE tag = "X" -> <<88>>
      [] tag = "Y" -> <<89>>
      [] tag = "Z" -> <<90>>
      [] tag = "Azimuth" -> <<65, 122, 105, 109, 117, 116, 104>>
      [] tag = "Elevation" -> <<69, 108, 101, 118, 97, 116, 105, 111, 110>>
      [] tag = "Range" -> <<82, 97, 110, 103, 101>>
      [] tag = "Pitch" -> <<80, 105, 116, 99, 104>>
      [] tag = "Yaw" -> <<89, 97, 119>>
      [] tag = "Roll" -> <<82, 111, 108, 108>>

GrapeTags == {"X", "Y", "Z", "Azimuth", "Elevation", "Range", "Pitch", "Yaw", "Roll"}

HdrStreams == <<40, 110, 95, 115, 116, 114, 101, 97, 109, 115, 58>>     \* (n_streams:
HdrRate == <<44, 115, 97, 109, 112, 108, 101, 95, 114, 97, 116, 101, 58>> \* ,sample_rate:
HdrTags == <<44, 116, 97, 103, 115, 58, 91>>                             \* ,tags:[
HdrClose == <<93, 41>>                                                   \* ])
COMMA == <<44>>
DigitBytes == 48..57
LetterBytes == (65..90) \cup (97..122)
DELIMITER == 255

\* A u64 in decimal
RECURSIVE Decimal(_)
Decimal(n) ==
    IF n < 10 THEN <<48 + n>> ELSE Append(Decimal(n \div 10), 48 + (n % 10))

RECURSIVE JoinTags(_)
JoinTags(tags) ==
    IF tags = <<>> THEN <<>>
    ELSE IF Len(tags) = 1 THEN TagName(tags[1])
    ELSE TagName(Head(tags)) \o COMMA \o JoinTags(Tail(tags))

\* ron::ser::to_string(&header): (n_streams:A,sample_rate:B,tags:[C,D,...])
RonToString(header) ==
    HdrStreams \o Decimal(header.n_streams)
    \o HdrRate \o Decimal(header.sample_rate)
    \o HdrTags \o JoinTags(header.tags) \o HdrClose

RECURSIVE DecimalValue(_)
DecimalValue(d) ==
    IF d = <<>> THEN 0
    ELSE 10 * DecimalValue(Take(d, Len(d) - 1)) + (d[Len(d)] - 48)

\* A decimal number after the field name `name`
RonNumber(name, r) ==
    IF r.tag # "ok" \/ Take(r.rest, Len(name)) # name THEN PErr
    ELSE IF RunLen(Drop(r.rest, Len(name)), DigitBytes) = 0 THEN PErr
    ELSE POk(Append(r.val,
                    DecimalValue(Take(Drop(r.rest, Len(name)),
                                      RunLen(Drop(r.rest, Len(name)), DigitBytes)))),
             Drop(r.rest, Len(name) + RunLen(Drop(r.rest, Len(name)), DigitBytes)))

TagOfName(name) ==
    IF \E t \in GrapeTags : TagName(t) = name
    THEN <<CHOOSE t \in GrapeTags : TagName(t) = name>>
    ELSE <<>>

\* The tags of the list, up to its closing bracket
RECURSIVE RonTagList(_, _)
RonTagList(s, tags) ==
    IF Take(s, Len(HdrClose)) = HdrClose
    THEN IF Len(s) = Len(HdrClose) THEN POk(tags, <<>>) ELSE PErr
    ELSE IF TagOfName(Take(s, RunLen(s, LetterBytes))) = <<>> THEN PErr
    ELSE IF Take(Drop(s, RunLen(s, LetterBytes)), 1) = COMMA
         /\ RunLen(Drop(s, RunLen(s, LetterBytes) + 1), LetterBytes) > 0
    THEN RonTagList(Drop(s, RunLen(s, LetterBytes) + 1),
                    tags \o TagOfName(Take(s, RunLen(s, LetterBytes))))
    ELSE IF Take(Drop(s, RunLen(s, LetterBytes)), Len(HdrClose)) = HdrClose
    THEN RonTagList(Drop(s, RunLen(s, LetterBytes)),
                    tags \o TagOfName(Take(s, RunLen(s, LetterBytes))))
    ELSE PErr

RonTags(r) ==
    IF r.tag # "ok" \/ Take(r.rest, Len(HdrTags)) # HdrTags THEN PErr
    ELSE RonTagList(Drop(r.rest, Len(HdrTags)), <<>>)

RonHeader(nums, tags) ==
    IF nums.tag # "ok" \/ tags.tag # "ok" THEN PErr
    ELSE POk([n_streams |-> nums.val[1], sample_rate |-> nums.val[2],
              tags |-> tags.val], <<>>)

RonNumbers(buf) == RonNumber(HdrRate, RonNumber(HdrStreams, POk(<<>>, buf)))

\* ron::de::from_bytes::<GrapeFileHeader>(header_buf), for the text that
\* to_string writes; anything else is an error.
RonFromBytes(buf) == RonHeader(RonNumbers(buf), RonTags(RonNumbers(buf)))

RECURSIVE SampleBytes(_)
SampleBytes(samples) ==
    IF samples = <<>> THEN <<>>
    ELSE ToBeBytes(Head(samples)) \o SampleBytes(Tail(samples))

\* GrapeFile::to_file: header, delimiter, samples
ToFileBytes(f) == RonToString(f.header) \o <<DELIMITER>> \o SampleBytes(f.samples)

\* raw_text.iter().position(|e| *e == 0xFF): 0 when there is none
RECURSIVE Position(_, _)
Position(raw, from) ==
    IF from > Len(raw) THEN 0
    ELSE IF raw[from] = DELIMITER THEN from
    ELSE Position(raw, from + 1)

DelimIdx(raw) == Position(raw, 1)

\* samples_buf.chunks(4).map(|bs| bs[0..4]...) : a chunk shorter than four
\* bytes makes bs[0..4] panic (the slice index is out of range) before
\* try_into can fail.
RECURSIVE Chunks(_, _)
Chunks(buf, samples) ==
    IF buf = <<>> THEN [tag |-> "ok", samples |-> samples]
    ELSE IF Len(buf) < 4 THEN [tag |-> "panic", samples |-> <<>>]
    ELSE Chunks(Drop(buf, 4), Append(samples, FromBeBytes(Take(buf, 4))))

ReadOk(f) == [tag |-> "ok", err |-> "", file |-> f]
ReadErr(e) == [tag |-> "err", err |-> e, file |-> <<>>]
ReadPanic == [tag |-> "panic", err |-> "", file |-> <<>>]
NotRead == [tag |-> "none", err |-> "", file |-> <<>>]

ReadSamples(header, chunks) ==
    IF header.tag # "ok" THEN ReadErr("RonSpannedError")
    ELSE IF chunks.tag = "panic" THEN ReadPanic
    ELSE ReadOk([header |-> header.val, samples |-> chunks.samples])

SplitAtDelim(raw, idx) ==
    IF idx = 0 THEN ReadErr("NoDelimiter")
    ELSE ReadSamples(RonFromBytes(Take(raw, idx - 1)), Chunks(Drop(raw, idx), <<>>))

\* GrapeFile::from_file
FromFileBytes(raw) == SplitAtDelim(raw, DelimIdx(raw))

\* ---- Stream extraction

\* self.samples.iter().skip(i).step_by(n_streams): how many samples that is
RawLen(total, i, n) == IF total > i THEN (total - i + n - 1) \div n ELSE 0

\* de-interleaving by blocks: stream i is the i-th run of consecutive samples
GetRawStreamsBlocked(f) ==
    [i \in 1..f.header.n_streams |->
        [j \in 1..(Len(f.samples) \div f.header.n_streams) |->
            f.samples[(i - 1) * (Len(f.samples) \div f.header.n_streams) + j]]]

\* GrapeFile::get_raw_streams: stream i (from 0) is the samples at the
\* flat indices i, i + n_streams, i + 2 n_streams, ...
GetRawStreams(f) ==
    [i \in 1..f.header.n_streams |->
        [j \in 1..RawLen(Len(f.samples), i - 1, f.header.n_streams) |->
            f.samples[(i - 1) + (j - 1) * f.header.n_streams + 1]]]

StreamsOk(rate, streams) == [tag |-> "ok", rate |-> rate, streams |-> streams]
StreamsPanic == [tag |-> "panic", rate |-> 0, streams |-> <<>>]
NoStreams == [tag |-> "none", rate |-> 0, streams |-> <<>>]

Attached(streams) == [tag |-> "ok", streams |-> streams]
AttachPanic == [tag |-> "panic", streams |-> <<>>]

\* GrapeFile::attach_tags: assert_eq!(tags.len(), samples.len()), then zip
AttachTags(tags, samples) ==
    IF Len(tags) # Len(samples) THEN AttachPanic
    ELSE Attached([i \in 1..Len(tags) |->
                     [tag |-> tags[i], samples |-> samples[i]]])

\* (self.header.sample_rate, res_vecs), unless attach_tags panicked
WithRate(rate, r) ==
    IF r.tag = "ok" THEN StreamsOk(rate, r.streams) ELSE StreamsPanic

\* GrapeFile::streams_native_sample_rate
StreamsNativeSampleRate(f) ==
    WithRate(f.header.sample_rate, AttachTags(f.header.tags, GetRawStreams(f)))

\* ---- f32 arithmetic (IEEE 754 binary32, round to nearest, ties to even)

IsInf(f) == f.exp = 255 /\ f.mant = 0

\* significand and exponent: the value is Sig * 2^(Expo - 150)
Sig(f) == IF f.exp = 0 THEN f.mant ELSE f.mant + 2^23
Expo(f) == IF f.exp = 0 THEN 1 ELSE f.exp

RECURSIVE BitLen(_)
BitLen(n) == IF n = 0 THEN 0 ELSE 1 + BitLen(n \div 2)

Max(a, b) == IF a > b THEN a ELSE b

RoundUp(q, r, half, sticky) == r > half \/ (r = half /\ (sticky \/ q % 2 = 1))

\* n without its d lowest bits, rounded; `sticky` says that bits below n
\* were lost already
Rounded(n, d, sticky) ==
    IF d <= 0 THEN n * 2^(0 - d)
    ELSE (n \div 2^d)
         + (IF RoundUp(n \div 2^d, n % 2^d, 2^(d - 1), sticky) THEN 1 ELSE 0)

Encode(sign, m, e) ==
    IF e >= 255 THEN F32(sign, 255, 0)
    ELSE IF m < 2^23 THEN F32(sign, 0, m)
    ELSE F32(sign, e, m - 2^23)

Carry(sign, m, e) ==
    IF m >= 2^24 THEN Encode(sign, m \div 2, e + 1) ELSE Encode(sign, m, e)

LostBits(n, e) == Max(BitLen(n) - 24, 1 - e)

\* The f32 nearest to (n + fraction) * 2^(e - 150), n > 0
RoundPack(sign, n, sticky, e) ==
    Carry(sign, Rounded(n, LostBits(n, e), sticky), e + LostBits(n, e))

SumPack(sign, n, sticky, e) ==
    IF n = 0 THEN ZERO ELSE RoundPack(sign, n, sticky, e)

\* exponents at most 6 apart: the sum is exact before rounding
AddNear(big, sm, same) ==
    SumPack(big.sign,
            Sig(big) * 2^(Expo(big) - Expo(sm))
                + (IF same THEN Sig(sm) ELSE 0 - Sig(sm)),
            FALSE, Expo(sm))

\* further apart: the small operand keeps 6 guard bits and a sticky bit
AddFar(big, q, st, same) ==
    SumPack(big.sign,
            Sig(big) * 64 + (IF same THEN q
                             ELSE 0 - q - (IF st THEN 1 ELSE 0)),
            st, Expo(big) - 6)

AddOrdered(big, sm) ==
    IF Sig(big) = 0 THEN F32(IF big.sign = 1 /\ sm.sign = 1 THEN 1 ELSE 0, 0, 0)
    ELSE IF Expo(big) - Expo(sm) <= 6 THEN AddNear(big, sm, big.sign = sm.sign)
    ELSE AddFar(big,
                Sig(sm) \div 2^Min(Expo(big) - Expo(sm) - 6, 24),
                Sig(sm) % 2^Min(Expo(big) - Expo(sm) - 6, 24) # 0,
                big.sign = sm.sign)

\* a + b on f32. The bits of a NaN result are not fixed by the language:
\* the quiet NaN stands for all of them.
F32Add(a, b) ==
    IF IsNaN(a) \/ IsNaN(b) THEN A_NAN
    ELSE IF IsInf(a) /\ IsInf(b) THEN (IF a.sign = b.sign THEN a ELSE A_NAN)
    ELSE IF IsInf(a) THEN a
    ELSE IF IsInf(b) THEN b
    ELSE IF Expo(a) > Expo(b) \/ (Expo(a) = Expo(b) /\ Sig(a) >= Sig(b))
         THEN AddOrdered(a, b)
    ELSE AddOrdered(b, a)

\* a / (n as f32) for a count 1 <= n <= 64
F32DivCount(a, n) ==
    IF IsNaN(a) THEN A_NAN
    ELSE IF IsInf(a) \/ Sig(a) = 0 THEN a
    ELSE RoundPack(a.sign, (Sig(a) * 128) \div n, (Sig(a) * 128) % n # 0,
                   Expo(a) - 7)

F32Neg(a) == [a EXCEPT !.sign = 1 - @]

\* a - b on f32
F32Sub(a, b) == F32Add(a, F32Neg(b))

\* (i as f32) * a for a count 0 <= i < 128
F32MulCount(i, a) ==
    IF IsNaN(a) \/ (IsInf(a) /\ i = 0) THEN A_NAN
    ELSE IF IsInf(a) THEN a
    ELSE IF Sig(a) * i = 0 THEN F32(a.sign, 0, 0)
    ELSE RoundPack(a.sign, Sig(a) * i, FALSE, Expo(a))

\* c.iter().sum::<f32>(): the fold of + from 0.0, in order
RECURSIVE F32Sum(_, _)
F32Sum(acc, c) == IF c = <<>> THEN acc ELSE F32Sum(F32Add(acc, Head(c)), Tail(c))

\* c.iter().sum::<f32>() / c.len() as f32
ChunkMean(c) == F32DivCount(F32Sum(ZERO, c), Len(c))

\* ---- Resampling

\* streams_native_sample_rate().1
WithoutRate(r) == [tag |-> r.tag, streams |-> r.streams]

\* v.chunks_exact(p): a final partial chunk is left out
RECURSIVE ChunkMeansExact(_, _)
ChunkMeansExact(v, p) ==
    IF Len(v) < p THEN <<>>
    ELSE <<ChunkMean(Take(v, p))>> \o ChunkMeansExact(Drop(v, p), p)

\* v.chunks(p).map(|c| mean of c)
RECURSIVE ChunkMeans(_, _)
ChunkMeans(v, p) ==
    IF v = <<>> THEN <<>>
    ELSE <<ChunkMean(Take(v, p))>> \o ChunkMeans(Drop(v, p), p)

Quantized(raw, p) == [i \in 1..Len(raw) |-> ChunkMeans(raw[i], p)]

\* GrapeFile::streams_quantized: the division by a sample_rate of 0 panics
StreamsQuantized(f, sample_rate) ==
    IF sample_rate = 0 THEN AttachPanic
    ELSE AttachTags(f.header.tags,
            Quantized(GetRawStreams(f), f.header.sample_rate \div sample_rate))

\* (w[1] - w[0]) / samples_per_pt as f32
Step(w0, w1, spp) == F32DivCount(F32Sub(w1, w0), spp)

\* (0..samples_per_pt).map(|i| w[0] + i as f32 * step)
Ramp(w0, step, spp) == [i \in 1..spp |-> F32Add(w0, F32MulCount(i - 1, step))]

\* the interpolation followed by the last native sample
RECURSIVE InterpolateWithLast(_, _)
InterpolateWithLast(v, spp) ==
    IF Len(v) < 2 THEN v
    ELSE Ramp(v[1], Step(v[1], v[2], spp), spp) \o InterpolateWithLast(Tail(v), spp)

\* v.windows(2).flat_map(...)
RECURSIVE Interpolate(_, _)
Interpolate(v, spp) ==
    IF Len(v) < 2 THEN <<>>
    ELSE Ramp(v[1], Step(v[1], v[2], spp), spp) \o Interpolate(Tail(v), spp)

Interpolated(raw, spp) == [i \in 1..Len(raw) |-> Interpolate(raw[i], spp)]

\* GrapeFile::streams_interpolated: the division by a native rate of 0
\* panics
StreamsInterpolated(f, sample_rate) ==
    IF f.header.sample_rate = 0 THEN AttachPanic
    ELSE AttachTags(f.header.tags,
            Interpolated(GetRawStreams(f), sample_rate \div f.header.sample_rate))

\* GrapeFile::streams_with_sample_rate
StreamsWithSampleRate(f, sample_rate) ==
    IF sample_rate = f.header.sample_rate
    THEN WithoutRate(StreamsNativeSampleRate(f))
    ELSE IF sample_rate < f.header.sample_rate
    THEN StreamsQuantized(f, sample_rate)
    ELSE StreamsInterpolated(f, sample_rate)

Asked(sample_rate, r) ==
    [tag |-> r.tag, asked |-> sample_rate, streams |-> r.streams]
NotAsked == [tag |-> "none", asked |-> 0, streams |-> <<>>]

\* ---- GrapeFileBuilder

\* GrapeFileBuilder::new
NewBuilder == [sample_rate |-> 1000, streams |-> <<>>]

StreamLens(streams) == {Len(streams[i].samples) : i \in 1..Len(streams)}

Shortest(streams) == CHOOSE n \in StreamLens(streams) : \A m \in StreamLens(streams) : n <= m
Longest(streams) == CHOOSE n \in StreamLens(streams) : \A m \in StreamLens(streams) : n >= m

Header(b) ==
    [n_streams |-> Len(b.streams),
     sample_rate |-> b.sample_rate,
     tags |-> [i \in 1..Len(b.streams) |-> b.streams[i].tag]]

\* padding with 0.0 whatever the stream holds
ExtendedZero(v, j) == IF j <= Len(v) THEN v[j] ELSE ZERO

\* The sample pushed for stream `i` at index `j` by build_extend:
\* sample_vecs[i].get(j).unwrap_or(&lasts[i])
Extended(v, j) ==
    IF j <= Len(v) THEN v[j]
    ELSE IF v = <<>> THEN ZERO ELSE v[Len(v)]

\* build_truncate with one stream after the other instead of interleaved
BuildTruncateStreamMajor(b) ==
    [header |-> Header(b),
     samples |->
        IF b.streams = <<>> THEN <<>>
        ELSE [k \in 1..(Shortest(b.streams) * Len(b.streams)) |->
                b.streams[((k - 1) \div Shortest(b.streams)) + 1]
                    .samples[((k - 1) % Shortest(b.streams)) + 1]]]

\* GrapeFileBuilder::build_truncate
BuildTruncate(b) ==
    [header |-> Header(b),
     samples |->
        IF b.streams = <<>> THEN <<>>
        ELSE [k \in 1..(Shortest(b.streams) * Len(b.streams)) |->
                b.streams[((k - 1) % Len(b.streams)) + 1]
                    .samples[((k - 1) \div Len(b.streams)) + 1]]]

\* GrapeFileBuilder::build_extend
BuildExtend(b) ==
    [header |-> Header(b),
     samples |->
        IF b.streams = <<>> THEN <<>>
        ELSE [k \in 1..(Longest(b.streams) * Len(b.streams)) |->
                Extended(b.streams[((k - 1) % Len(b.streams)) + 1].samples,
                         ((k - 1) \div Len(b.streams)) + 1)]]

\* build with a check of the first two lengths only
BuildFirstTwo(b) ==
    IF Len(b.streams) < 2 \/ Len(b.streams[1].samples) = Len(b.streams[2].samples)
    THEN ReadOk(BuildTruncate(b))
    ELSE ReadErr("UnequalSampleBufferLengths")

\* GrapeFileBuilder::build: lens.windows(2).all(|w| w[0] == w[1])
Build(b) ==
    IF \A i \in 1..(Len(b.streams) - 1) :
          Len(b.streams[i].samples) = Len(b.streams[i + 1].samples)
    THEN ReadOk(BuildTruncate(b))
    ELSE ReadErr("UnequalSampleBufferLengths")

\* The streams and rates the codec run adds to its builder.
StreamPool ==
    { <<>>, <<A_FLOAT>>, <<A_FLOAT, NEG_HUGE>>, <<ZERO, ONE_FF>>,
      <<ONE_FF, A_NAN, A_FLOAT>> }
TagPool == {"X", "Azimuth"}
RatePool == {5, 44100}

SetSamplerate(rate) ==
    /\ codecPc = "builder"
    /\ builder.sample_rate = 1000
    /\ builder' = [builder EXCEPT !.sample_rate = rate]
    /\ UNCHANGED <<gfile, fileBytes, readBack, codecPc, nCuts,
                   buildKind, streamsOut, resampled>>

AddStream(stream, tag) ==
    /\ codecPc = "builder"
    /\ builder' = [builder EXCEPT
                     !.streams = Append(@, [tag |-> tag, samples |-> stream])]
    /\ UNCHANGED <<gfile, fileBytes, readBack, codecPc, nCuts,
                   buildKind, streamsOut, resampled>>

DoBuild ==
    /\ codecPc = "builder"
    /\ gfile' = Build(builder)
    /\ codecPc' = "built"
    /\ buildKind' = "build"
    /\ UNCHANGED <<builder, fileBytes, readBack, nCuts, streamsOut, resampled>>

DoBuildTruncate ==
    /\ codecPc = "builder"
    /\ gfile' = ReadOk(BuildTruncate(builder))
    /\ codecPc' = "built"
    /\ buildKind' = "build_truncate"
    /\ UNCHANGED <<builder, fileBytes, readBack, nCuts, streamsOut, resampled>>

DoBuildExtend ==
    /\ codecPc = "builder"
    /\ gfile' = ReadOk(BuildExtend(builder))
    /\ codecPc' = "built"
    /\ buildKind' = "build_extend"
    /\ UNCHANGED <<builder, fileBytes, readBack, nCuts, streamsOut, resampled>>

ToFile ==
    /\ codecPc = "built"
    /\ gfile.tag = "ok"
    /\ fileBytes' = ToFileBytes(gfile.file)
    /\ codecPc' = "written"
    /\ UNCHANGED <<builder, gfile, readBack, nCuts, buildKind, streamsOut, resampled>>

\* The file loses its last byte (a truncated copy of a written file).
CutFile ==
    /\ codecPc = "written"
    /\ nCuts < MaxCuts
    /\ fileBytes # <<>>
    /\ fileBytes' = Take(fileBytes, Len(fileBytes) - 1)
    /\ nCuts' = nCuts + 1
    /\ UNCHANGED <<builder, gfile, readBack, codecPc, buildKind, streamsOut, resampled>>

FromFile ==
    /\ codecPc = "written"
    /\ readBack' = FromFileBytes(fileBytes)
    /\ codecPc' = "read"
    /\ UNCHANGED <<builder, gfile, fileBytes, nCuts, buildKind, streamsOut, resampled>>

\* The GrapeFile at hand: the one read back once from_file has run, the
\* one built before that.
CurFile == IF codecPc = "read" THEN readBack ELSE gfile

\* file.streams_native_sample_rate()
ReadNative ==
    /\ codecPc \in {"built", "read"}
    /\ CurFile.tag = "ok"
    /\ streamsOut' = StreamsNativeSampleRate(CurFile.file)
    /\ UNCHANGED <<builder, gfile, fileBytes, readBack, codecPc, nCuts,
                   buildKind, resampled>>

\* file.streams_with_sample_rate(sample_rate)
ReadWithRate(sample_rate) ==
    /\ codecPc \in {"built", "read"}
    /\ CurFile.tag = "ok"
    /\ resampled' = Asked(sample_rate,
                          StreamsWithSampleRate(CurFile.file, sample_rate))
    /\ UNCHANGED <<builder, gfile, fileBytes, readBack, codecPc, nCuts,
                   buildKind, streamsOut>>

\* The streams and the rates of the resampling runs.
CONST_F == F32(0, 127, 8388606)     \* 1.9999998  (0x3FFFFFFE)
RateStreams ==
    { <<>>, <<A_FLOAT>>,
      <<CONST_F, CONST_F, CONST_F, CONST_F>>,
      <<A_FLOAT, A_FLOAT, A_FLOAT, A_FLOAT>>,
      <<ONE_FF, A_NAN, NEG_HUGE, ZERO>> }
AskPool == {0, 2, 5, 10, 18, 333, 500, 1000, 2000, 44100}

\* Files that some other program wrote in the same format: the header is
\* well-formed RON, followed by the delimiter and whole samples.
OtherFiles ==
    { ToFileBytes([header |-> [n_streams |-> 2, sample_rate |-> 5,
                               tags |-> <<"X">>],
                   samples |-> <<A_FLOAT, ZERO>>]) }

\* A file of another program is opened instead of one written by to_file.
OpenOther(bytes) ==
    /\ codecPc = "builder"
    /\ builder = NewBuilder
    /\ fileBytes' = bytes
    /\ codecPc' = "written"
    /\ UNCHANGED <<builder, gfile, readBack, nCuts, buildKind, streamsOut, resampled>>

---------------------------------------------------------------------------
(* Sphericalizer: src/src/sphericalizer.rs *)

ANTENNA_RANGE == 12217        \* 1.22173 rad
PI_2 == PI \div 2

Clamp(x, lo, hi) == IF x < lo THEN lo ELSE IF x > hi THEN hi ELSE x

\* Sphericalizer::scale_angle
ScaleAngle(azm) == Clamp((azm * PI_2) \div ANTENNA_RANGE, 0 - PI_2, PI_2)

\* if front_ant.azm > 0.0 { metadata.azimuth = PI - metadata.azimuth }
Reflect(azimuth, front_azm) == IF front_azm > 0 THEN PI - azimuth ELSE azimuth

\* metadata.azimuth -= 1.5 * PI
Rotate(azimuth) == azimuth - (3 * PI) \div 2

\* if metadata.azimuth < 0.0 { metadata.azimuth += 2.0 * PI }
NoWrap(azimuth) == azimuth
Wrap(azimuth) == IF azimuth < 0 THEN azimuth + 2 * PI ELSE azimuth

Azimuth(back_azm, front_azm) == Wrap(Rotate(Reflect(ScaleAngle(back_azm), front_azm)))

\* pair.iter().find(|u| u.src == antenna): the updates of the pair that come
\* from the antenna, in the order of the pair
FirstOrAny(pair, antenna) ==
    IF pair[1].src = antenna THEN <<pair[1]>>
    ELSE IF pair[2].src = antenna THEN <<pair[2]>>
    ELSE <<pair[1]>>
Find(pair, antenna) ==
    IF pair[1].src = antenna THEN <<pair[1]>>
    ELSE IF pair[2].src = antenna THEN <<pair[2]>>
    ELSE <<>>

\* The closure of query, for the pair of tag i: the metadata, or nothing when
\* one of the expect() calls panics
Metadata(back, front, setting) ==
    IF back = <<>> \/ front = <<>> THEN <<>>
    ELSE << [azimuth |-> Azimuth(back[1].azm, front[1].azm),
             elevation |-> ScaleAngle(back[1].elv),
             range |-> setting[2],
             gain |-> setting[1]] >>

\* updates.chunks(2), the i-th chunk
Chunk(updates, i) == <<updates[2 * i - 1], updates[2 * i]>>

PairMetadata(pair, setting) ==
    Metadata(Find(pair, BACK_ANTENNA), Find(pair, FRONT_ANTENNA), setting)

QNone == [tag |-> "none", val |-> <<>>]
QSome(v) == [tag |-> "some", val |-> v]
QPanic == [tag |-> "panic", val |-> <<>>]
NotQueried == [tag |-> "idle", val |-> <<>>]

\* grouped_updates.enumerate().map(..).collect(), from pair i on
RECURSIVE Collect(_, _, _, _)
Collect(updates, settings, i, out) ==
    IF i > Len(settings) THEN QSome(out)
    ELSE IF PairMetadata(Chunk(updates, i), settings[i]) = <<>> THEN QPanic
    ELSE Collect(updates, settings, i + 1,
                 out \o PairMetadata(Chunk(updates, i), settings[i]))

\* updates.sort_by(|a, b| a.dst.cmp(&b.dst)) of the values of a HashMap: every
\* order with the dst ascending (the sort is stable, and the order in which
\* get_status walks its HashMap is any)
SortedByDst(updates) ==
    { f \in [1..Cardinality(updates) -> updates] :
        /\ \A i, j \in 1..Cardinality(updates) : i # j => f[i] # f[j]
        /\ \A i, j \in 1..Cardinality(updates) :
              i < j => ~IdLess(f[j].dst, f[i].dst) }

\* updates.len() != self.tag_settings.len() * 2
AtLeast(updates, settings) == Cardinality(updates) >= Len(settings) * 2
\* a readiness check that lets more updates than two per tag through
ReadyAtLeast(updates, settings) == Cardinality(updates) >= Len(settings) * 2

Ready(updates, settings) == Cardinality(updates) = Len(settings) * 2

\* Sphericalizer::query, the whole call: get_status, then the readiness check,
\* the sort, the pairing and the conversion.
Query ==
    /\ qres.tag # "panic"
    /\ GetStatus
    /\ IF Ready(status', tag_settings)
       THEN \E order \in SortedByDst(status') :
               /\ sorted' = order
               /\ qres' = Collect(order, tag_settings, 1, <<>>)
       ELSE /\ sorted' = <<>>
            /\ qres' = QNone
    /\ UNCHANGED tag_settings

\* A measurement arrives while the sphericalizer runs.
SphAddUpdate(event) ==
    /\ qres.tag # "panic"
    /\ AddUpdate(event)
    /\ UNCHANGED <<accVars, sphVars>>

\* (gain, range) of the tags
SettingsPool == << <<1, 2>>, <<3, 4>> >>

SphEvent(anchor, tag, a1, a2) ==
    [anchor_id |-> anchor, tag_id |-> tag, angle_1 |-> a1, angle_2 |-> a2]

\* The measurements of the sphericalizer run.
SphEvents ==
    { SphEvent(BACK_ANTENNA, TAG_1, 0 - 100, 95),
      SphEvent(FRONT_ANTENNA, TAG_1, 0 - 10, 0),
      SphEvent(BACK_ANTENNA, TAG_2, 30, 0 - 20),
      SphEvent(FRONT_ANTENNA, TAG_2, 5, 0),
      SphEvent(OTHER_ANTENNA, TAG_1, 0, 0) }

---------------------------------------------------------------------------
(* Pipeline stages: run_component, src/src/component.rs.  Stage i reads    *)
(* channel i-1 and writes channel i; the test thread writes channel 0 and  *)
(* reads channel NStages.                                                  *)

NStages == 2
Stages == 1..NStages
Channels == 0..NStages

\* MockComponent::convert
Convert(input) == input + 1

\* Sender::send on a channel whose receiver lives: the value joins the queue
ChanSendFront(q, x) == <<x>> \o q
ChanSend(q, x) == Append(q, x)

\* input.recv() is Err: nothing is buffered and the sender is dropped
SenderGone(i) == ~txAlive[i - 1]
Disconnected(i) == chan[i - 1] = <<>> /\ ~txAlive[i - 1]

\* while let Ok(data) = input.recv() { let out_data = component.convert(data);
StageRecv(i) ==
    /\ pc[i] = "recv"
    /\ chan[i - 1] # <<>>
    /\ chan' = [chan EXCEPT ![i - 1] = Tail(@)]
    /\ held' = [held EXCEPT ![i] = <<Convert(Head(chan[i - 1]))>>]
    /\ converted' = [converted EXCEPT ![i] = Append(@, Convert(Head(chan[i - 1])))]
    /\ pc' = [pc EXCEPT ![i] = "send"]
    /\ UNCHANGED <<txAlive, rxAlive, finalized, warned, sent, received, bufferedAtDrop>>

\* Where the worker goes after output.send returned: back to input.recv(),
\* whether the send was Ok or Err (an Err is only logged)
AfterSendFatal(ok) == IF ok THEN "recv" ELSE "done"
AfterSend(ok) == "recv"

\* if let Err(error) = output.send(out_data) { warn!(..) }
StageSend(i) ==
    /\ pc[i] = "send"
    /\ chan' = [chan EXCEPT ![i] = IF rxAlive[i] THEN ChanSend(@, held[i][1]) ELSE @]
    /\ warned' = [warned EXCEPT ![i] = IF rxAlive[i] THEN @ ELSE @ + 1]
    /\ held' = [held EXCEPT ![i] = <<>>]
    /\ pc' = [pc EXCEPT ![i] = AfterSend(rxAlive[i])]
    /\ UNCHANGED <<txAlive, rxAlive, finalized, converted, sent, received, bufferedAtDrop>>

\* input.recv() returns Err and the loop ends
StageDisconnected(i) ==
    /\ pc[i] = "recv"
    /\ Disconnected(i)
    /\ pc' = [pc EXCEPT ![i] = "finalize"]
    /\ UNCHANGED <<chan, txAlive, rxAlive, held, finalized, warned, converted,
                   sent, received, bufferedAtDrop>>

\* component.finalize()
StageFinalize(i) ==
    /\ pc[i] = "finalize"
    /\ finalized' = [finalized EXCEPT ![i] = @ + 1]
    /\ pc' = [pc EXCEPT ![i] = "exit"]
    /\ UNCHANGED <<chan, txAlive, rxAlive, held, warned, converted, sent, received,
                   bufferedAtDrop>>

\* The closure returns: its Receiver and its Sender are dropped
StageExit(i) ==
    /\ pc[i] = "exit"
    /\ pc' = [pc EXCEPT ![i] = "done"]
    /\ txAlive' = [txAlive EXCEPT ![i] = FALSE]
    /\ rxAlive' = [rxAlive EXCEPT ![i - 1] = FALSE]
    /\ UNCHANGED <<chan, held, finalized, warned, converted, sent, received,
                   bufferedAtDrop>>

StageStep(i) ==
    \/ StageRecv(i)
    \/ StageSend(i)
    \/ StageDisconnected(i)
    \/ StageFinalize(i)
    \/ StageExit(i)

\* test_tx.send(x)
TestSend(x) ==
    /\ txAlive[0]
    /\ Len(sent) < MaxSend
    /\ chan' = [chan EXCEPT ![0] = IF rxAlive[0] THEN ChanSend(@, x) ELSE @]
    /\ sent' = Append(sent, x)
    /\ UNCHANGED <<txAlive, rxAlive, pc, held, finalized, warned, converted,
                   received, bufferedAtDrop>>

\* test_tx goes out of scope
TestDropSender ==
    /\ txAlive[0]
    /\ txAlive' = [txAlive EXCEPT ![0] = FALSE]
    /\ bufferedAtDrop' = Len(chan[0])
    /\ UNCHANGED <<chan, rxAlive, pc, held, finalized, warned, converted, sent,
                   received>>

\* test_rx.recv() returns Ok
TestRecv ==
    /\ rxAlive[NStages]
    /\ chan[NStages] # <<>>
    /\ received' = Append(received, Head(chan[NStages]))
    /\ chan' = [chan EXCEPT ![NStages] = Tail(@)]
    /\ UNCHANGED <<txAlive, rxAlive, pc, held, finalized, warned, converted, sent,
                   bufferedAtDrop>>

\* test_rx goes out of scope
TestDropReceiver ==
    /\ rxAlive[NStages]
    /\ rxAlive' = [rxAlive EXCEPT ![NStages] = FALSE]
    /\ UNCHANGED <<chan, txAlive, pc, held, finalized, warned, converted, sent,
                   received, bufferedAtDrop>>

\* The values the test thread sends.
SendPool == {0, 7}

---------------------------------------------------------------------------
(* Time-domain buffer: src/src/time_domain_buffer.rs *)

\* assert_eq!(data.len(), self.num_tags)
AcceptsAny(row, n) == TRUE
Accepts(row, n) == Len(row) = n

\* TDBufMeta::new
NewTDBuf(n) == [data |-> <<>>, num_tags |-> n]

\* TDBufMeta::add: the assertion, then self.data.push(data)
TdAdd(row) ==
    /\ ~tdConsumed
    /\ offered' = Append(offered, row)
    /\ IF Accepts(row, tdbuf.num_tags)
       THEN /\ tdbuf' = [tdbuf EXCEPT !.data = Append(@, row)]
            /\ tdResult' = "ok"
       ELSE /\ tdbuf' = tdbuf
            /\ tdResult' = "panic"
    /\ UNCHANGED <<tdConsumed, dumped>>

\* TDBufMeta::dump(self): the rows are returned and the buffer is moved away
TdDump ==
    /\ ~tdConsumed
    /\ dumped' = Append(dumped, tdbuf.data)
    /\ tdConsumed' = TRUE
    /\ tdResult' = "ok"
    /\ UNCHANGED <<tdbuf, offered>>

\* One turn of the loops of main: if let Some(update) = sphericalizer.query(..)
\* { td_buf.add(update) }
Tick ==
    /\ Query
    /\ IF qres'.tag = "some" THEN TdAdd(qres'.val) ELSE UNCHANGED tdVars

\* The rows the buffer run offers: (azimuth, elevation) of the metadata of
\* tests::test_buf_init, in rows of 0 to 3 entries.
TdRows ==
    { <<>>, << <<90, 0>> >>, << <<45, 45>> >>, << <<90, 0>>, <<45, 45>> >>,
      << <<45, 45>>, <<90, 0>> >>, << <<90, 0>>, <<45, 45>>, <<90, 0>> >> }

---------------------------------------------------------------------------
(* The binaural branch of main: how many updates to gather, and the slices *)
(* of the audio files that go with the gathered rows.  An audio file is    *)
(* modelled by its number of samples.                                      *)

NoPlan == [tag |-> "none", num_updates_needed |-> 0, samples_per_update |-> 0]

PlanOk(n, s) == [tag |-> "ok", num_updates_needed |-> n, samples_per_update |-> s]

\* usize subtraction below zero: a panic in a build with overflow checks
PlanPanic == [tag |-> "panic", num_updates_needed |-> 0, samples_per_update |-> 0]

\* and a wrap to 2^64 - 1 in a build without: num_updates_needed is then
\* 2^64 - update_rate, more turns than any run takes
PlanWrapped(s) == [tag |-> "wrapped", num_updates_needed |-> 0, samples_per_update |-> s]

RECURSIVE MaxOf(_)
MaxOf(s) ==
    IF Len(s) = 1 THEN s[1]
    ELSE IF s[1] > MaxOf(Tail(s)) THEN s[1] ELSE MaxOf(Tail(s))

\* let shortest = sound_data.iter().map(|v| v.len()).max()
ShortestFile(sound_data) == MaxOf(sound_data)

\* len_shortest, num_updates_needed and samples_per_update
PlanOf(a) ==
    IF ShortestFile(a.sound_data) \div a.samp_rate = 0
    THEN {PlanPanic, PlanWrapped(a.samp_rate \div a.update_rate)}
    ELSE {PlanOk((ShortestFile(a.sound_data) \div a.samp_rate - 1) * a.update_rate,
                 a.samp_rate \div a.update_rate)}

PlanUpdates ==
    /\ plan = NoPlan
    /\ plan' \in PlanOf(audio)
    /\ UNCHANGED <<audio, gathered, spatial_data, processed, postResult>>

Gathering ==
    \/ plan.tag = "ok" /\ gathered < plan.num_updates_needed
    \/ plan.tag = "wrapped" /\ gathered < MaxGather

\* One turn of the gathering loop in which query returned Some: a row is added.
GatherSome ==
    /\ Gathering
    /\ gathered' = gathered + 1
    /\ spatial_data' = spatial_data + 1
    /\ UNCHANGED <<audio, plan, processed, postResult>>

\* One turn in which query returned None.
GatherNone ==
    /\ Gathering
    /\ gathered' = gathered + 1
    /\ UNCHANGED <<audio, plan, spatial_data, processed, postResult>>

\* &v[sound_start..sound_stop] of a file of len samples
SliceOk(len, sound_start, sound_stop) == sound_stop <= len

\* One turn of the post-processing loop, for row i = processed.
PostRow ==
    /\ plan.tag = "ok"
    /\ gathered = plan.num_updates_needed
    /\ postResult = "ok"
    /\ processed < spatial_data
    /\ IF \A f \in 1..Len(audio.sound_data) :
             SliceOk(audio.sound_data[f],
                     processed * plan.samples_per_update,
                     (processed + 1) * plan.samples_per_update)
       THEN processed' = processed + 1 /\ postResult' = "ok"
       ELSE processed' = processed /\ postResult' = "panic"
    /\ UNCHANGED <<audio, plan, gathered, spatial_data>>

---------------------------------------------------------------------------
(* fold_until_stop: a spawned thread folds f over a state until the caller, *)
(* on a key press, sends Stop; the state of the model is the number of      *)
(* applications, f adds one.  A turn of the caller's drawing loop without   *)
(* a key press changes nothing.                                             *)

F(v) == v + 1

\* The worker enters f: val = f(val) begins.  Until the stop message is sent
\* the run is cut off after MaxApply applications.
WorkerCall ==
    /\ workerPc = "loop"
    /\ callerPc \in {"ui", "stop"} => applied < MaxApply
    /\ workerPc' = "in_f"
    /\ UNCHANGED <<callerPc, stop_rx, res_rx, foldVal, foldRes, applied,
                   appliedAtStop, resSent>>

\* f returns and val is assigned.
WorkerReturn ==
    /\ workerPc = "in_f"
    /\ foldVal' = F(foldVal)
    /\ applied' = applied + 1
    /\ workerPc' = "check"
    /\ UNCHANGED <<callerPc, stop_rx, res_rx, foldRes, appliedAtStop, resSent>>

\* a worker that sends the result and goes on folding
WorkerCheckNoBreak ==
    /\ workerPc = "check"
    /\ IF stop_rx # <<>>
       THEN /\ stop_rx' = Tail(stop_rx)
            /\ res_rx' = Append(res_rx, foldVal)
            /\ resSent' = Append(resSent, foldVal)
            /\ workerPc' = "loop"
       ELSE /\ workerPc' = "loop"
            /\ UNCHANGED <<stop_rx, res_rx, resSent>>
    /\ UNCHANGED <<callerPc, foldVal, foldRes, applied, appliedAtStop>>

\* if let Ok(ThreadMessage::Stop) = stop_rx.try_recv() { res_tx.send(val); break }
WorkerCheck ==
    /\ workerPc = "check"
    /\ IF stop_rx # <<>>
       THEN /\ stop_rx' = Tail(stop_rx)
            /\ res_rx' = Append(res_rx, foldVal)
            /\ resSent' = Append(resSent, foldVal)
            /\ workerPc' = "exit"
       ELSE /\ workerPc' = "loop"
            /\ UNCHANGED <<stop_rx, res_rx, resSent>>
    /\ UNCHANGED <<callerPc, foldVal, foldRes, applied, appliedAtStop>>

\* event::poll and event::read return a key press: the drawing loop is left.
KeyPress ==
    /\ callerPc = "ui"
    /\ callerPc' = "stop"
    /\ UNCHANGED <<workerPc, stop_rx, res_rx, foldVal, foldRes, applied,
                   appliedAtStop, resSent>>

\* stop_tx.send(ThreadMessage::Stop)?
CallerStop ==
    /\ callerPc = "stop"
    /\ stop_rx' = Append(stop_rx, "Stop")
    /\ appliedAtStop' = applied
    /\ callerPc' = "recv"
    /\ UNCHANGED <<workerPc, res_rx, foldVal, foldRes, applied, resSent>>

\* let res = res_rx.recv()?: blocks until a value is there
CallerRecv ==
    /\ callerPc = "recv"
    /\ res_rx # <<>>
    /\ foldRes' = <<Head(res_rx)>>
    /\ res_rx' = Tail(res_rx)
    /\ callerPc' = "join"
    /\ UNCHANGED <<workerPc, stop_rx, foldVal, applied, appliedAtStop, resSent>>

\* th.join(): blocks until the worker's closure has returned
CallerJoin ==
    /\ callerPc = "join"
    /\ workerPc = "exit"
    /\ callerPc' = "done"
    /\ UNCHANGED <<workerPc, stop_rx, res_rx, foldVal, foldRes, applied,
                   appliedAtStop, resSent>>

---------------------------------------------------------------------------
(* Specifications *)

HdmInit ==
    /\ msgs = <<>>
    /\ nAdded = 0
    /\ delivered = <<>>

AccInit ==
    /\ accumulated_updates = <<>>
    /\ status = {}
    /\ nStatus = 0
    /\ lastDrained = 0
    /\ appended = <<>>

DecIdle ==
    /\ lineIn = <<>>
    /\ parsed = NoResult
    /\ listenerAlive = TRUE
    /\ nLines = 0
    /\ read_buf = <<>>
    /\ portBytes = <<>>
    /\ nReads = 0

CodecInit ==
    /\ builder = NewBuilder
    /\ gfile = NotRead
    /\ fileBytes = <<>>
    /\ readBack = NotRead
    /\ codecPc = "builder"
    /\ nCuts = 0
    /\ buildKind = "none"
    /\ streamsOut = NoStreams
    /\ resampled = NotAsked

SphIdle == tag_settings = <<>> /\ qres = NotQueried /\ sorted = <<>>

\* run_component, for every stage of the chain; nothing sent yet
PipeInit ==
    /\ chan = [c \in Channels |-> <<>>]
    /\ txAlive = [c \in Channels |-> TRUE]
    /\ rxAlive = [c \in Channels |-> TRUE]
    /\ pc = [i \in Stages |-> "recv"]
    /\ held = [i \in Stages |-> <<>>]
    /\ finalized = [i \in Stages |-> 0]
    /\ warned = [i \in Stages |-> 0]
    /\ converted = [i \in Stages |-> <<>>]
    /\ sent = <<>>
    /\ received = <<>>
    /\ bufferedAtDrop = 0

TdIdle ==
    /\ tdConsumed = FALSE
    /\ tdResult = "ok"
    /\ dumped = <<>>
    /\ offered = <<>>

CallIdle == hdmOp = "new" /\ cleared = {} /\ clearedAt = 0

DrainIdle == holder = "none" /\ queuedAtCall = {} /\ taken = <<>>

PostIdle ==
    /\ plan = NoPlan
    /\ gathered = 0
    /\ spatial_data = 0
    /\ processed = 0
    /\ postResult = "ok"

\* fold_until_stop right after spawn: nothing applied, nothing sent
FoldInit ==
    /\ workerPc = "loop"
    /\ callerPc = "ui"
    /\ stop_rx = <<>>
    /\ res_rx = <<>>
    /\ foldVal = 0
    /\ foldRes = <<>>
    /\ applied = 0
    /\ appliedAtStop = 0
    /\ resSent = <<>>

NoAudio == audio = [sound_data |-> <<>>, samp_rate |-> 0, update_rate |-> 0]

Rest ==
    /\ PipeInit /\ TdIdle /\ tdbuf = NewTDBuf(2) /\ CallIdle /\ DrainIdle
    /\ PostIdle /\ NoAudio /\ FoldInit

Idle == feedKey = <<BACK_ANTENNA, TAG_1>> /\ DecIdle /\ CodecInit /\ Rest

\* The update buffer alone: a producer and a consumer.
InitHdm == HdmInit /\ AccInit /\ Idle /\ SphIdle

OnlyHdm == UNCHANGED <<accVars, decVars, codecVars, sphVars, pipeVars, tdVars, callVars, drainVars, postVars, foldVars>>

NextHdm ==
    \/ \E e \in HdmEvents : nAdded < MaxAdds /\ AddUpdate(e) /\ OnlyHdm
    \/ HdmNext /\ OnlyHdm
    \/ HdmClear /\ OnlyHdm

SpecHdm == InitHdm /\ [][NextHdm]_vars

\* The buffer shared by a producer and a consumer that also clears it and
\* that accumulates; the calls are recorded.
Called(op) == hdmOp' = op /\ UNCHANGED <<cleared, clearedAt>>

OnlyCalls == UNCHANGED <<decVars, codecVars, sphVars, pipeVars, tdVars, drainVars, postVars, foldVars>>

CallEvents ==
    { [anchor_id |-> a, tag_id |-> TAG_1, angle_1 |-> 20, angle_2 |-> 0] :
        a \in {BACK_ANTENNA, FRONT_ANTENNA} }

NextCalls ==
    \/ /\ nAdded < MaxCallAdds
       /\ \E ev \in CallEvents : AddUpdate(ev)
       /\ Called("add")
       /\ UNCHANGED accVars /\ OnlyCalls
    \/ HdmNext /\ Called("some") /\ UNCHANGED accVars /\ OnlyCalls
    \/ HdmNextNone /\ Called("none") /\ UNCHANGED accVars /\ OnlyCalls
    \/ /\ HdmClear
       /\ hdmOp' = "clear"
       /\ cleared' = cleared \cup Arrivals(msgs)
       /\ clearedAt' = nAdded
       /\ UNCHANGED accVars /\ OnlyCalls
    \/ /\ nStatus < MaxStatus
       /\ GetStatus
       /\ Called("status")
       /\ OnlyCalls

SpecCalls == InitHdm /\ [][NextCalls]_vars

\* The listener thread next to an accumulator that calls get_status.
OnlyDrain == UNCHANGED <<decVars, codecVars, sphVars, pipeVars, tdVars, callVars, postVars, foldVars>>

NextDrain ==
    \/ \E ev \in CallEvents : nAdded < MaxDrainAdds /\ ListenerAdd(ev) /\ OnlyDrain
    \/ nStatus < MaxStatus /\ StatusBegin /\ OnlyDrain
    \/ StatusTurn /\ OnlyDrain
    \/ StatusReturn /\ OnlyDrain

SpecDrain == InitHdm /\ [][NextDrain]_vars

\* The accumulator's thread is scheduled again and again: a turn of the loop
\* that can be taken is taken.
SpecDrainFair ==
    /\ SpecDrain
    /\ WF_vars(StatusTurn /\ OnlyDrain)
    /\ WF_vars(StatusReturn /\ OnlyDrain)

\* Buffer and accumulator: updates of one key are fed, get_status is called.
InitWindow ==
    /\ HdmInit /\ AccInit /\ DecIdle /\ CodecInit /\ SphIdle /\ Rest
    /\ feedKey \in WindowKeys

OnlyAcc == UNCHANGED <<decVars, codecVars, sphVars, pipeVars, tdVars, callVars, drainVars, postVars, foldVars>>

NextWindow ==
    \/ /\ nAdded < MaxFeed
       /\ AddUpdate(WindowEvent(nAdded + 1, feedKey))
       /\ UNCHANGED accVars
       /\ OnlyAcc
    \/ /\ nStatus < MaxStatus
       /\ GetStatus
       /\ OnlyAcc

SpecWindow == InitWindow /\ [][NextWindow]_vars

\* The listener thread: lines arrive, are decoded and pushed to the buffer.
InitDec == HdmInit /\ AccInit /\ Idle /\ SphIdle

NextDec ==
    /\ nLines < MaxLines
    /\ \E l \in TestLines : Listen(l)
    /\ UNCHANGED <<accVars, codecVars, sphVars, pipeVars, tdVars, callVars, drainVars, postVars, foldVars>>

SpecDec == InitDec /\ [][NextDec]_vars

\* Ingestion: the port delivers chunks, whole lines or not.
NextIngest ==
    /\ nReads < MaxReads
    /\ \E c \in IngestChunks : PortRead(c)
    /\ UNCHANGED <<accVars, codecVars, sphVars, pipeVars, tdVars, callVars, drainVars, postVars, foldVars>>

SpecIngest == InitDec /\ [][NextIngest]_vars

\* The codec: a builder is filled and built, the file written, read back.
InitCodec == HdmInit /\ AccInit /\ Idle /\ SphIdle

OnlyCodec == UNCHANGED <<hdmVars, accVars, decVars, sphVars, pipeVars, tdVars, callVars, drainVars, postVars, foldVars>>

NextCodec ==
    \/ \E r \in RatePool : SetSamplerate(r) /\ OnlyCodec
    \/ /\ Len(builder.streams) < MaxStreams
       /\ \E s \in StreamPool, t \in TagPool : AddStream(s, t)
       /\ OnlyCodec
    \/ DoBuild /\ OnlyCodec
    \/ DoBuildTruncate /\ OnlyCodec
    \/ DoBuildExtend /\ OnlyCodec
    \/ ToFile /\ OnlyCodec
    \/ CutFile /\ OnlyCodec
    \/ FromFile /\ OnlyCodec
    \/ ReadNative /\ OnlyCodec
    \/ \E b \in OtherFiles : OpenOther(b) /\ OnlyCodec

SpecCodec == InitCodec /\ [][NextCodec]_vars

\* The builder alone, with more streams: filled, built, streams extracted.
NextBuild ==
    \/ \E r \in RatePool : SetSamplerate(r) /\ OnlyCodec
    \/ /\ Len(builder.streams) < MaxBuildStreams
       /\ \E s \in StreamPool, t \in TagPool : AddStream(s, t)
       /\ OnlyCodec
    \/ DoBuild /\ OnlyCodec
    \/ DoBuildTruncate /\ OnlyCodec
    \/ DoBuildExtend /\ OnlyCodec
    \/ ReadNative /\ OnlyCodec

SpecBuild == InitCodec /\ [][NextBuild]_vars

\* Resampling: a file is built, its streams are extracted once at the
\* native rate and once at a rate asked for.
NextRates ==
    \/ \E r \in RatePool : SetSamplerate(r) /\ OnlyCodec
    \/ /\ Len(builder.streams) < MaxRateStreams
       /\ \E s \in RateStreams, t \in TagPool : AddStream(s, t)
       /\ OnlyCodec
    \/ DoBuild /\ OnlyCodec
    \/ streamsOut = NoStreams /\ ReadNative /\ OnlyCodec
    \/ /\ resampled = NotAsked
       /\ \E r \in AskPool :
            /\ r \div builder.sample_rate <= MaxFactor
            /\ ReadWithRate(r)
       /\ OnlyCodec

SpecRates == InitCodec /\ [][NextRates]_vars

\* The sphericalizer: measurements arrive, the main loop queries.
InitSph ==
    /\ HdmInit /\ AccInit /\ Idle
    /\ \E n \in 0..Len(SettingsPool) : tag_settings = SubSeq(SettingsPool, 1, n)
    /\ qres = NotQueried
    /\ sorted = <<>>

OnlySph == UNCHANGED <<decVars, codecVars, pipeVars, tdVars, callVars, drainVars, postVars, foldVars>>

NextSph ==
    \/ \E e \in SphEvents : nAdded < MaxSphAdds /\ SphAddUpdate(e) /\ OnlySph
    \/ nStatus < MaxQueries /\ Query /\ OnlySph

SpecSph == InitSph /\ [][NextSph]_vars

\* The loop of main: a sphericalizer and a time-domain buffer made for the
\* same number of tags, a tick again and again while measurements arrive.
InitTick ==
    /\ HdmInit /\ AccInit /\ DecIdle /\ CodecInit /\ PipeInit /\ TdIdle
    /\ CallIdle /\ DrainIdle /\ PostIdle /\ NoAudio /\ FoldInit
    /\ feedKey = <<BACK_ANTENNA, TAG_1>>
    /\ \E n \in 0..Len(SettingsPool) :
          /\ tag_settings = SubSeq(SettingsPool, 1, n)
          /\ tdbuf = NewTDBuf(n)
    /\ qres = NotQueried
    /\ sorted = <<>>

OnlyTick == UNCHANGED <<decVars, codecVars, pipeVars, callVars, drainVars, postVars, foldVars>>

NextTick ==
    \/ /\ \E e \in SphEvents : nAdded < MaxTickAdds /\ SphAddUpdate(e)
       /\ UNCHANGED tdVars /\ OnlyTick
    \/ nStatus < MaxTicks /\ Tick /\ OnlyTick

SpecTick == InitTick /\ [][NextTick]_vars

\* The binaural branch of main, for one or two audio files.
AudioLengths ==
    {<<a>> : a \in 0..MaxSamples} \cup
    {<<a, b>> : a \in 0..MaxSamples, b \in {2, 4, MaxSamples}}

InitPost ==
    /\ HdmInit /\ AccInit /\ DecIdle /\ CodecInit /\ SphIdle /\ PipeInit /\ TdIdle
    /\ tdbuf = NewTDBuf(2) /\ CallIdle /\ DrainIdle /\ PostIdle /\ FoldInit
    /\ feedKey = <<BACK_ANTENNA, TAG_1>>
    /\ \E l \in AudioLengths : \E s \in 1..MaxSampRate : \E u \in 1..MaxUpdateRate :
          audio = [sound_data |-> l, samp_rate |-> s, update_rate |-> u]

OnlyPost == UNCHANGED <<hdmVars, accVars, decVars, codecVars, sphVars, pipeVars,
                        tdVars, callVars, drainVars, foldVars>>

NextPost ==
    \/ PlanUpdates /\ OnlyPost
    \/ GatherSome /\ OnlyPost
    \/ GatherNone /\ OnlyPost
    \/ PostRow /\ OnlyPost

SpecPost == InitPost /\ [][NextPost]_vars

\* fold_until_stop: the worker thread and the caller.
OnlyFold == UNCHANGED <<hdmVars, accVars, decVars, codecVars, sphVars, pipeVars,
                        tdVars, callVars, drainVars, postVars>>

NextFold ==
    \/ WorkerCall /\ OnlyFold
    \/ WorkerReturn /\ OnlyFold
    \/ WorkerCheck /\ OnlyFold
    \/ KeyPress /\ OnlyFold
    \/ CallerStop /\ OnlyFold
    \/ CallerRecv /\ OnlyFold
    \/ CallerJoin /\ OnlyFold

InitFold == HdmInit /\ AccInit /\ Idle /\ SphIdle

SpecFold == InitFold /\ [][NextFold]_vars

\* Both threads are scheduled again and again; nothing makes the user press
\* a key.
WorkerStep == (WorkerCall \/ WorkerReturn \/ WorkerCheck) /\ OnlyFold

CallerStep == (CallerStop \/ CallerRecv \/ CallerJoin) /\ OnlyFold

SpecFoldFair == SpecFold /\ WF_vars(WorkerStep) /\ WF_vars(CallerStep)

\* The chain of test_chained_component: the test thread and the workers.
InitPipe == HdmInit /\ AccInit /\ Idle /\ SphIdle

OnlyPipe == UNCHANGED <<hdmVars, accVars, decVars, codecVars, sphVars, tdVars,
                        callVars, drainVars, postVars, foldVars>>

NextPipe ==
    \/ \E i \in Stages : StageRecv(i) /\ OnlyPipe
    \/ \E i \in Stages : StageSend(i) /\ OnlyPipe
    \/ \E i \in Stages : StageDisconnected(i) /\ OnlyPipe
    \/ \E i \in Stages : StageFinalize(i) /\ OnlyPipe
    \/ \E i \in Stages : StageExit(i) /\ OnlyPipe
    \/ \E x \in SendPool : TestSend(x) /\ OnlyPipe
    \/ TestDropSender /\ OnlyPipe
    \/ TestRecv /\ OnlyPipe
    \/ TestDropReceiver /\ OnlyPipe

SpecPipe == InitPipe /\ [][NextPipe]_vars

\* Every worker thread that can run does run.
SpecPipeFair ==
    /\ SpecPipe
    /\ \A i \in Stages : WF_vars(StageStep(i) /\ OnlyPipe)

\* The time-domain buffer: rows are added, then the buffer is dumped.
InitTd ==
    /\ HdmInit /\ AccInit /\ SphIdle /\ DecIdle /\ CodecInit /\ PipeInit /\ TdIdle
    /\ CallIdle /\ DrainIdle /\ PostIdle /\ NoAudio /\ FoldInit
    /\ feedKey = <<BACK_ANTENNA, TAG_1>>
    /\ \E n \in 0..2 : tdbuf = NewTDBuf(n)

OnlyTd == UNCHANGED <<hdmVars, accVars, decVars, codecVars, sphVars, pipeVars,
                      callVars, drainVars, postVars, foldVars>>

NextTd ==
    \/ \E row \in TdRows : Len(offered) < MaxTdAdds /\ TdAdd(row) /\ OnlyTd
    \/ TdDump /\ OnlyTd

SpecTd == InitTd /\ [][NextTd]_vars

---------------------------------------------------------------------------
(* C1: the consumer receives the updates in the order in which they were   *)
(* added: the arrival numbers next() returns are increasing.               *)
C1_FifoByArrival ==
    \A i, j \in 1..Len(delivered) : i < j => delivered[i] < delivered[j]

(* C2: when K+1 updates of one key are fed and get_status is then called,  *)
(* the window of the key holds the last K of them by arrival (the first    *)
(* one evicted) and the returned azm and elv are the means of those K.     *)
LastKArrivals == 2..(K + 1)

RECURSIVE SumDeg(_, _)
SumDeg(lo, hi) == IF lo > hi THEN 0 ELSE DegToRad(lo) + SumDeg(lo + 1, hi)

RECURSIVE SumDegElv(_, _)
SumDegElv(lo, hi) ==
    IF lo > hi THEN 0 ELSE DegToRad(0 - 2 * lo) + SumDegElv(lo + 1, hi)

C2_WindowKeepsLastK ==
    (nStatus = 1 /\ lastDrained = K + 1) =>
        /\ DOMAIN accumulated_updates = {feedKey}
        /\ {accumulated_updates[feedKey][i].arr :
              i \in 1..Len(accumulated_updates[feedKey])} = LastKArrivals
        /\ \A s \in status :
              /\ s.azm = SumDeg(2, K + 1) \div K
              /\ s.elv = SumDegElv(2, K + 1) \div K

(* C3: from_str never panics, and a line whose tag id is a run of hex       *)
(* digits that is not exactly 12 digits long gives a parse error.          *)
TagIdRun(l) ==
    IF Take(l, Len(TagUUDF)) = TagUUDF
    THEN RunLen(Drop(l, Len(TagUUDF)), HexDigitChars)
    ELSE IF Take(l, Len(TagUUDFP)) = TagUUDFP
    THEN RunLen(Drop(l, Len(TagUUDFP)), HexDigitChars)
    ELSE 0 - 1

C3_DecoderNeverPanics ==
    nLines > 0 =>
        /\ parsed.tag \in {"ok", "err"}
        /\ (TagIdRun(lineIn) >= 0 /\ TagIdRun(lineIn) # IdLen) => parsed.tag = "err"

(* C4 as stated: reading back the bytes to_file wrote gives a GrapeFile     *)
(* that compares equal (==) to the one written, whatever the sample values.*)
C4_RoundTripEq ==
    (codecPc = "read" /\ nCuts = 0 /\ gfile.tag = "ok")
    => (readBack.tag = "ok" /\ GrapeFileEq(readBack.file, gfile.file))

(* C4: reading back the bytes to_file wrote gives the header and the very  *)
(* samples (bit for bit, in the same order) of the GrapeFile written; the  *)
(* two compare equal (==) whenever no sample is a NaN.                     *)
C4_RoundTrip ==
    (codecPc = "read" /\ nCuts = 0 /\ gfile.tag = "ok")
    => /\ readBack = gfile
       /\ (\A i \in 1..Len(gfile.file.samples) : ~IsNaN(gfile.file.samples[i]))
            => GrapeFileEq(readBack.file, gfile.file)

C4_Witness ==
    /\ codecPc = "read"
    /\ nCuts = 0
    /\ readBack.tag = "ok"
    /\ readBack.file.header.n_streams = 2
    /\ readBack.file.header.sample_rate = 44100
    /\ \E i \in 1..Len(readBack.file.samples) : readBack.file.samples[i] = NEG_HUGE
    /\ \E i \in 1..Len(readBack.file.samples) : IsNaN(readBack.file.samples[i])

(* C5: reading a file whose sample section (the bytes after the first      *)
(* 0xFF) is not a multiple of 4 bytes long returns Err(TryInto).           *)
C5_TruncatedTailIsTryInto ==
    (/\ codecPc = "read"
     /\ DelimIdx(fileBytes) > 0
     /\ (Len(fileBytes) - DelimIdx(fileBytes)) % 4 # 0)
    => readBack = ReadErr("TryInto")

(* C6: a query whose snapshot does not hold exactly 2 x num_tags updates    *)
(* returns None; it returns Some only when the count is 2 x num_tags.      *)
C6_NoneUnlessReady ==
    (nStatus > 0 /\ qres.tag # "idle")
    => /\ (Cardinality(status) # 2 * Len(tag_settings)) => qres = QNone
       /\ (qres.tag = "some") =>
             /\ Cardinality(status) = 2 * Len(tag_settings)
             /\ Len(qres.val) = Len(tag_settings)

C6_Witness ==
    /\ qres = QNone
    /\ Len(tag_settings) = 2
    /\ Cardinality(status) = 3
    /\ \E u \in status : u.src = BACK_ANTENNA
    /\ \E u \in status : u.src = FRONT_ANTENNA

\* The pair of tag i of the last query has no update from the antenna.
Lacks(i, antenna) ==
    sorted[2 * i - 1].src # antenna /\ sorted[2 * i].src # antenna

(* C7: when the snapshot holds exactly 2 x num_tags updates and some pair   *)
(* of consecutive updates (sorted by dst) has none from the back antenna,  *)
(* or none from the front antenna, query panics.                           *)
C7_MissingAntennaPanics ==
    (/\ qres.tag # "idle"
     /\ Cardinality(status) = 2 * Len(tag_settings)
     /\ \E i \in 1..Len(tag_settings) :
           Lacks(i, BACK_ANTENNA) \/ Lacks(i, FRONT_ANTENNA))
    => qres = QPanic

C7_Witness ==
    /\ qres = QPanic
    /\ Len(tag_settings) = 2
    /\ Len(sorted) = 4
    /\ ~Lacks(1, BACK_ANTENNA)
    /\ ~Lacks(1, FRONT_ANTENNA)
    /\ Lacks(2, FRONT_ANTENNA)

\* Back-antenna readings of any sign and magnitude, in degrees.
AngleRange == (0 - 400)..400

(* C8 as stated: the azimuth and the elevation of every BufferMetadata     *)
(* that query returns are in [0, 2*pi).                                    *)
C8_BothInZeroTwoPi ==
    (qres.tag = "some")
    => \A i \in 1..Len(qres.val) :
          /\ 0 <= qres.val[i].azimuth /\ qres.val[i].azimuth < 2 * PI
          /\ 0 <= qres.val[i].elevation /\ qres.val[i].elevation < 2 * PI

(* C8: the azimuth of every BufferMetadata that query returns is in        *)
(* [0, 2*pi) and its elevation is in [-pi/2, pi/2]; so is the azimuth      *)
(* computed from a back reading of any sign and magnitude, whichever the   *)
(* sign of the front reading.                                              *)
C8_AzimuthWrappedElevationScaled ==
    /\ (qres.tag = "some")
       => \A i \in 1..Len(qres.val) :
             /\ 0 <= qres.val[i].azimuth /\ qres.val[i].azimuth < 2 * PI
             /\ 0 - PI_2 <= qres.val[i].elevation /\ qres.val[i].elevation <= PI_2
    /\ (qres.tag = "idle" /\ nAdded = 0)
       => \A b \in AngleRange, f \in {0 - 1, 0, 1} :
             /\ 0 <= Azimuth(DegToRad(b), f) /\ Azimuth(DegToRad(b), f) < 2 * PI
             /\ 0 - PI_2 <= ScaleAngle(DegToRad(b)) /\ ScaleAngle(DegToRad(b)) <= PI_2

C8_Witness ==
    /\ qres.tag = "some"
    /\ Len(qres.val) = 2
    /\ \E i \in 1..2 : qres.val[i].elevation < 0
    /\ \E i \in 1..2 : qres.val[i].azimuth > PI
    /\ \E i \in 1..2 : qres.val[i].azimuth < PI

\* convert applied to every value of a sequence, in order
Converted(xs) == [k \in 1..Len(xs) |-> Convert(xs[k])]

IsPrefix(a, b) == Len(a) <= Len(b) /\ a = SubSeq(b, 1, Len(a))

\* What stage i was sent: the test thread's values, or the output of stage i-1
InputOf(i) == IF i = 1 THEN sent ELSE converted[i - 1]

AllDone == \A i \in Stages : pc[i] = "done"

(* C9: each stage converts the values sent on its input once each and in   *)
(* input order, and puts the results on its output in that order: what the *)
(* test thread receives from the chain of A and B is, in order, a prefix   *)
(* of B.convert(A.convert(x)) for the values x it sent, and all of them    *)
(* once the workers are done, whatever the interleaving.                   *)
C9_StageOrdering ==
    /\ \A i \in Stages : IsPrefix(converted[i], Converted(InputOf(i)))
    /\ rxAlive[NStages]
       => received \o chan[NStages]
            = SubSeq(converted[NStages], 1, Len(received) + Len(chan[NStages]))
    /\ IsPrefix(received, Converted(Converted(sent)))
    /\ (AllDone /\ rxAlive[NStages] /\ chan[NStages] = <<>>)
       => received = Converted(Converted(sent))

C9_Witness ==
    /\ AllDone
    /\ rxAlive[NStages]
    /\ Len(sent) = 3
    /\ sent[1] # sent[2]
    /\ received = Converted(Converted(sent))

\* A worker converts only before its finalize, and finalizes at most once.
ConvertBeforeFinalize ==
    \A i \in Stages :
       /\ (converted'[i] # converted[i]) => (finalized[i] = 0 /\ finalized'[i] = 0)
       /\ (finalized'[i] # finalized[i]) =>
             (finalized[i] = 0 /\ finalized'[i] = 1 /\ chan[i - 1] = <<>> /\ held[i] = <<>>)
       /\ (pc'[i] = "done") => finalized'[i] = 1

\* Every stage has converted all it was sent, finalized once, and exited.
ShutDown ==
    \A i \in Stages :
       /\ pc[i] = "done"
       /\ finalized[i] = 1
       /\ converted[i] = Converted(InputOf(i))
       /\ ~txAlive[i]

(* C10: once the sender of the first channel is dropped, every stage of    *)
(* the chain eventually has converted all the values buffered on its       *)
(* input, called finalize exactly once and exited, closing its output;     *)
(* finalize is never called before the last convert of the stage, and no   *)
(* convert follows it.                                                     *)
C10_Shutdown ==
    /\ (~txAlive[0]) ~> ShutDown
    /\ [][ConvertBeforeFinalize]_vars
    /\ [](AllDone => ShutDown)

C10_Witness ==
    /\ ShutDown
    /\ bufferedAtDrop >= 2
    /\ Len(converted[NStages]) = 3

\* The worker of stage i has left its receive loop.
LeftLoop(i) == pc[i] \in {"finalize", "exit", "done"}

(* C11: a stage whose downstream receiver is dropped keeps receiving and   *)
(* converting every further input, each failed send giving one warning;    *)
(* it leaves its loop only when its own input is closed and drained, and   *)
(* then still calls finalize.                                              *)
C11_SendFailureNotFatal ==
    /\ [](\A i \in Stages :
            /\ LeftLoop(i) => (~txAlive[i - 1] /\ chan[i - 1] = <<>>)
            /\ pc[i] = "done" =>
                  (finalized[i] = 1 /\ converted[i] = Converted(InputOf(i)))
            /\ IsPrefix(converted[i], Converted(InputOf(i))))
    /\ [](Len(received) + Len(chan[NStages]) + warned[NStages]
            + Len(held[NStages]) = Len(converted[NStages]))
    /\ (~rxAlive[NStages] /\ ~txAlive[0]) ~> ShutDown

C11_Witness ==
    /\ ShutDown
    /\ ~rxAlive[NStages]
    /\ warned[NStages] >= 2
    /\ received # <<>>
    /\ finalized[NStages] = 1

\* The last n elements of a sequence
LastN(v, n) == SubSeq(v, Len(v) - Min(n, Len(v)) + 1, Len(v))

(* C12: after every return of get_status every window holds at most K      *)
(* updates, and they are the K updates most recently appended to that      *)
(* window, in the order in which they were appended.                       *)
C12_WindowBound ==
    /\ DOMAIN accumulated_updates = DOMAIN appended
    /\ \A k \in DOMAIN accumulated_updates :
          /\ Len(accumulated_updates[k]) <= K
          /\ accumulated_updates[k] = LastN(appended[k], K)

C12_Witness ==
    /\ nStatus = 2
    /\ lastDrained = 1
    /\ \E k \in DOMAIN accumulated_updates :
          /\ Len(appended[k]) = K + 2
          /\ Len(accumulated_updates[k]) = K

(* C13: get_status returns exactly one Update for every key whose window   *)
(* ever received data and none for any other key; the Update of a key      *)
(* carries that key as its src and dst, and the mean of that window.       *)
C13_OneUpdatePerKey ==
    (nStatus > 0)
    => /\ \A u \in status : Key(u) \in DOMAIN appended
       /\ \A k \in DOMAIN appended :
             /\ Cardinality({u \in status : Key(u) = k}) = 1
             /\ \A u \in status :
                   Key(u) = k =>
                     /\ u.azm = SumAzm(LastN(appended[k], K))
                                   \div Len(LastN(appended[k], K))
                     /\ u.elv = SumElv(LastN(appended[k], K))
                                   \div Len(LastN(appended[k], K))

C13_Witness ==
    /\ nStatus = 2
    /\ Cardinality(status) = 3
    /\ \E k \in DOMAIN appended : Len(appended[k]) = 2
    /\ <<OTHER_ANTENNA, TAG_1>> \in DOMAIN appended
    /\ <<BACK_ANTENNA, TAG_1>> \notin DOMAIN appended

RightLen(row) == Len(row) = tdbuf.num_tags

(* C14: every stored row has exactly num_tags entries; an add with a row   *)
(* of another length panics and appends nothing; dump returns the rows of  *)
(* the successful adds in insertion order, and is possible once only.      *)
C14_TimeDomainBuffer ==
    /\ \A r \in 1..Len(tdbuf.data) : Len(tdbuf.data[r]) = tdbuf.num_tags
    /\ tdbuf.data = SelectSeq(offered, RightLen)
    /\ (offered # <<>> /\ ~tdConsumed)
       => (tdResult = "panic" <=> ~RightLen(offered[Len(offered)]))
    /\ Len(dumped) <= 1
    /\ tdConsumed <=> Len(dumped) = 1
    /\ tdConsumed => dumped[1] = SelectSeq(offered, RightLen)

C14_Witness ==
    /\ tdConsumed
    /\ tdbuf.num_tags = 2
    /\ Len(offered) = 3
    /\ Len(dumped[1]) = 2
    /\ dumped[1][1] # dumped[1][2]
    /\ ~RightLen(offered[2])

(* C15: build returns Ok exactly when all added streams have the same      *)
(* length (no stream and one stream included), and                         *)
(* Err(UnequalSampleBufferLengths) whenever two streams, adjacent or not   *)
(* in insertion order, differ in length.                                   *)
SameLengths(streams) ==
    \A i, j \in 1..Len(streams) : Len(streams[i].samples) = Len(streams[j].samples)

C15_StrictBuild ==
    buildKind = "build"
    => /\ SameLengths(builder.streams) <=> gfile.tag = "ok"
       /\ ~SameLengths(builder.streams) => gfile = ReadErr("UnequalSampleBufferLengths")

C15_Witness ==
    /\ buildKind = "build"
    /\ Len(builder.streams) = 3
    /\ Len(builder.streams[1].samples) = Len(builder.streams[2].samples)
    /\ Len(builder.streams[1].samples) # Len(builder.streams[3].samples)
    /\ gfile = ReadErr("UnequalSampleBufferLengths")

(* C16: build_truncate stores (shortest stream length) x (number of        *)
(* streams) samples, sample j of stream i at flat index j * n_streams + i, *)
(* so every stream read back is the first `shortest` samples of the stream *)
(* added, in header.tags order.                                            *)
ShortestOrZero(streams) == IF streams = <<>> THEN 0 ELSE Shortest(streams)

FirstOf(streams, n) ==
    [i \in 1..Len(streams) |->
        [tag |-> streams[i].tag, samples |-> Take(streams[i].samples, n)]]

C16_TruncateLayout ==
    buildKind = "build_truncate"
    => /\ gfile.tag = "ok"
       /\ Len(gfile.file.samples)
            = ShortestOrZero(builder.streams) * Len(builder.streams)
       /\ \A i \in 0..(Len(builder.streams) - 1) :
            \A j \in 0..(ShortestOrZero(builder.streams) - 1) :
                gfile.file.samples[j * gfile.file.header.n_streams + i + 1]
                    = builder.streams[i + 1].samples[j + 1]
       /\ gfile.file.header.tags
            = [i \in 1..Len(builder.streams) |-> builder.streams[i].tag]
       /\ streamsOut.tag # "none"
            => streamsOut = StreamsOk(builder.sample_rate,
                    FirstOf(builder.streams, ShortestOrZero(builder.streams)))

C16_Witness ==
    /\ buildKind = "build_truncate"
    /\ Len(builder.streams) = 3
    /\ Shortest(builder.streams) = 2
    /\ Longest(builder.streams) = 3
    /\ builder.streams[1].tag # builder.streams[2].tag
    /\ streamsOut.tag = "ok"

(* C17: every stream read back from a build_extend file has the length of  *)
(* the longest added stream, starts with the stream's own samples, and is  *)
(* padded with repetitions of that stream's last value, or with 0.0 if the *)
(* stream was empty.                                                       *)
LongestOrZero(streams) == IF streams = <<>> THEN 0 ELSE Longest(streams)

PadValue(v) == IF v = <<>> THEN ZERO ELSE v[Len(v)]

Padded(streams, n) ==
    [i \in 1..Len(streams) |->
        [tag |-> streams[i].tag,
         samples |-> [j \in 1..n |->
                        IF j <= Len(streams[i].samples) THEN streams[i].samples[j]
                        ELSE PadValue(streams[i].samples)]]]

C17_ExtendPads ==
    buildKind = "build_extend"
    => /\ gfile.tag = "ok"
       /\ StreamsNativeSampleRate(gfile.file)
            = StreamsOk(builder.sample_rate,
                        Padded(builder.streams, LongestOrZero(builder.streams)))
       /\ streamsOut.tag # "none"
            => /\ streamsOut.tag = "ok"
               /\ \A i \in 1..Len(builder.streams) :
                    /\ Len(streamsOut.streams[i].samples) = Longest(builder.streams)
                    /\ Take(streamsOut.streams[i].samples,
                            Len(builder.streams[i].samples))
                         = builder.streams[i].samples
                    /\ \A j \in (Len(builder.streams[i].samples) + 1)
                                ..Longest(builder.streams) :
                         streamsOut.streams[i].samples[j]
                            = PadValue(builder.streams[i].samples)

C17_Witness ==
    /\ buildKind = "build_extend"
    /\ Len(builder.streams) = 3
    /\ \E i, k \in 1..3 :
         /\ builder.streams[i].samples = <<>>
         /\ Len(builder.streams[k].samples) = 2
         /\ PadValue(builder.streams[k].samples) # ZERO
    /\ Longest(builder.streams) = 3
    /\ streamsOut.tag = "ok"

(* C18: every GrapeFile obtained from build, build_truncate, build_extend  *)
(* or a successful from_file has as many tags as header.n_streams says     *)
(* and, when n_streams > 0, a whole number of samples per stream, so       *)
(* extracting its streams never trips the tags/streams length assertion.   *)
WellFormed(f) ==
    /\ Len(f.header.tags) = f.header.n_streams
    /\ f.header.n_streams > 0 => Len(f.samples) % f.header.n_streams = 0

C18_WellFormedFiles ==
    /\ gfile.tag = "ok" => WellFormed(gfile.file)
    /\ readBack.tag = "ok" => WellFormed(readBack.file)
    /\ streamsOut.tag # "panic"

(* C19: for a file built with build() from equal-length streams,          *)
(* streams_native_sample_rate and streams_with_sample_rate(native rate)    *)
(* return exactly the (tag, samples) pairs added to the builder, in the    *)
(* order they were added.                                                  *)
BuiltOk == buildKind = "build" /\ gfile.tag = "ok"

C19_SameRateIdentity ==
    BuiltOk
    => /\ streamsOut.tag # "none"
            => streamsOut = StreamsOk(builder.sample_rate, builder.streams)
       /\ (resampled.tag # "none" /\ resampled.asked = builder.sample_rate)
            => resampled = Asked(builder.sample_rate, Attached(builder.streams))

C19_Witness ==
    /\ BuiltOk
    /\ builder.sample_rate = 44100
    /\ Len(builder.streams) = 2
    /\ builder.streams[1].tag # builder.streams[2].tag
    /\ builder.streams[1].samples # builder.streams[2].samples
    /\ \E j \in 1..4 : IsNaN(builder.streams[2].samples[j])
    /\ streamsOut.tag = "ok"
    /\ resampled.tag = "ok"
    /\ resampled.asked = 44100

(* C20 as stated: for target < native and p = native / target, a stream    *)
(* of n samples comes back with ceil(n / p) samples, sample k the mean of  *)
(* the native samples k*p .. min((k+1)*p, n) - 1, and a constant-valued    *)
(* stream stays constant-valued.                                           *)
Decimated ==
    /\ BuiltOk
    /\ resampled.tag = "ok"
    /\ resampled.asked > 0
    /\ resampled.asked < builder.sample_rate

Factor == builder.sample_rate \div resampled.asked

CeilDiv(n, p) == (n + p - 1) \div p

ChunkOf(v, k, p) == SubSeq(v, k * p + 1, Min((k + 1) * p, Len(v)))

IsConstant(v) == \A a, b \in 1..Len(v) : v[a] = v[b]

ChunkedMeans ==
    /\ Len(resampled.streams) = Len(builder.streams)
    /\ \A i \in 1..Len(builder.streams) :
         /\ resampled.streams[i].tag = builder.streams[i].tag
         /\ Len(resampled.streams[i].samples)
              = CeilDiv(Len(builder.streams[i].samples), Factor)
         /\ \A k \in 0..(Len(resampled.streams[i].samples) - 1) :
              resampled.streams[i].samples[k + 1]
                = ChunkMean(ChunkOf(builder.streams[i].samples, k, Factor))

C20_ConstantStaysConstant ==
    Decimated
    => /\ ChunkedMeans
       /\ \A i \in 1..Len(builder.streams) :
            IsConstant(builder.streams[i].samples)
                => IsConstant(resampled.streams[i].samples)

(* C20: for target < native and p = native / target, a stream of n samples *)
(* comes back with ceil(n / p) samples, sample k the f32 mean (the sum in  *)
(* order, divided by the count) of the native samples                      *)
(* k*p .. min((k+1)*p, n) - 1; the mean of 1, 2 or 4 equal samples c is c  *)
(* itself when 4c does not overflow and c is a normal number.              *)
ExactCount(n) == n \in {1, 2, 4}

C20_Decimation ==
    Decimated
    => /\ ChunkedMeans
       /\ \A i \in 1..Len(builder.streams) :
            \A k \in 0..(Len(resampled.streams[i].samples) - 1) :
                (/\ IsConstant(ChunkOf(builder.streams[i].samples, k, Factor))
                 /\ ExactCount(Len(ChunkOf(builder.streams[i].samples, k, Factor)))
                 /\ builder.streams[i].samples[k * Factor + 1].exp \in 1..252)
                => resampled.streams[i].samples[k + 1]
                     = builder.streams[i].samples[k * Factor + 1]

C20_Witness ==
    /\ Decimated
    /\ Factor = 3
    /\ Len(builder.streams) = 2
    /\ builder.streams[1].samples = <<CONST_F, CONST_F, CONST_F, CONST_F>>
    /\ resampled.streams[1].samples = <<F32(0, 127, 8388605), CONST_F>>
    /\ \E j \in 1..4 : IsNaN(builder.streams[2].samples[j])

(* C21: for target > native and s = target / native, a stream of n >= 1    *)
(* samples comes back with (n - 1) * s samples, those of the native pair   *)
(* (a, b) being a + i * (b - a) / s for i = 0..s-1 in order (in f32: the   *)
(* step (b - a) / s is computed first); the last native sample is not      *)
(* emitted on its own, and a stream of 0 or 1 samples comes back empty.    *)
Interpolating ==
    /\ BuiltOk
    /\ resampled.tag = "ok"
    /\ resampled.asked > builder.sample_rate

PerPoint == resampled.asked \div builder.sample_rate

Between(a, b, i, s) == F32Add(a, F32MulCount(i, F32DivCount(F32Sub(b, a), s)))

Finite(f) == f.exp < 255

C21_Interpolation ==
    Interpolating
    => /\ Len(resampled.streams) = Len(builder.streams)
       /\ \A k \in 1..Len(builder.streams) :
            /\ resampled.streams[k].tag = builder.streams[k].tag
            /\ Len(builder.streams[k].samples) <= 1
                 => resampled.streams[k].samples = <<>>
            /\ Len(builder.streams[k].samples) >= 1
                 => Len(resampled.streams[k].samples)
                      = (Len(builder.streams[k].samples) - 1) * PerPoint
            /\ \A w \in 1..(Len(builder.streams[k].samples) - 1) :
                 \A i \in 0..(PerPoint - 1) :
                    /\ resampled.streams[k].samples[(w - 1) * PerPoint + i + 1]
                         = Between(builder.streams[k].samples[w],
                                   builder.streams[k].samples[w + 1], i, PerPoint)
                    /\ (/\ i = 0
                        /\ Finite(builder.streams[k].samples[w])
                        /\ Finite(builder.streams[k].samples[w + 1]))
                       => resampled.streams[k].samples[(w - 1) * PerPoint + 1]
                            = builder.streams[k].samples[w]

C21_Witness ==
    /\ Interpolating
    /\ PerPoint = 3
    /\ Len(builder.streams) = 2
    /\ builder.streams[1].samples = <<ONE_FF, A_NAN, NEG_HUGE, ZERO>>
    /\ builder.streams[2].samples = <<A_FLOAT, A_FLOAT, A_FLOAT, A_FLOAT>>
    /\ Len(resampled.streams[1].samples) = 9
    /\ resampled.streams[1].samples[7] = NEG_HUGE
    /\ resampled.streams[2].samples = [i \in 1..9 |-> A_FLOAT]

(* C22: a builder with no streams builds a file of zero streams and zero   *)
(* samples, and every resample request on that file, whatever the target   *)
(* rate (0 included), returns an empty list of streams without failing.    *)
C22_EmptyBuild ==
    (BuiltOk /\ builder.streams = <<>>)
    => /\ gfile.file.header.n_streams = 0
       /\ gfile.file.header.tags = <<>>
       /\ gfile.file.samples = <<>>
       /\ streamsOut.tag # "none" => streamsOut = StreamsOk(builder.sample_rate, <<>>)
       /\ resampled.tag # "none" => resampled = Asked(resampled.asked, Attached(<<>>))

(* C23: for any sequence of newline-terminated lines the Update Buffer     *)
(* receives exactly one Update per line that decodes as a Measurement      *)
(* (src = anchor_id, dst = tag_id of that line) and none for any other     *)
(* line; the line buffer is emptied after every newline and every later    *)
(* line is decoded as if the earlier ones had not been there.              *)
NewLines(bytes) == {i \in 1..Len(bytes) : bytes[i] = "\n"}

\* index of the k-th newline, 0 for k = 0
NthNewLine(bytes, k) ==
    IF k = 0 THEN 0
    ELSE CHOOSE i \in NewLines(bytes) :
            Cardinality({j \in NewLines(bytes) : j < i}) = k - 1

\* the complete lines (each with its newline) and the bytes after the last
LinesOf(bytes) ==
    [k \in 1..Cardinality(NewLines(bytes)) |->
        SubSeq(bytes, NthNewLine(bytes, k - 1) + 1, NthNewLine(bytes, k))]

PartialOf(bytes) ==
    SubSeq(bytes, NthNewLine(bytes, Cardinality(NewLines(bytes))) + 1, Len(bytes))

IsMeasurement(r, line) == Utf8Ok(line) /\ r.tag = "ok" /\ r.val.kind = "UUDFEvent"

RECURSIVE Measured(_)
Measured(lines) ==
    IF lines = <<>> THEN <<>>
    ELSE IF IsMeasurement(FromStr(Head(lines)), Head(lines))
    THEN <<[src |-> FromStr(Head(lines)).val.anchor_id,
            dst |-> FromStr(Head(lines)).val.tag_id]>> \o Measured(Tail(lines))
    ELSE Measured(Tail(lines))

Received(q) == [i \in 1..Len(q) |-> [src |-> q[Len(q) + 1 - i].src,
                                       dst |-> q[Len(q) + 1 - i].dst]]

C23_OneUpdatePerMeasurement ==
    /\ Received(msgs) = Measured(LinesOf(portBytes))
    /\ listenerAlive => read_buf = PartialOf(portBytes)

(* C24: clear drops all buffered updates: the next() that follows a clear  *)
(* with no push in between returns None, the updates pushed after the      *)
(* clear are still delivered, and clear leaves the accumulator's windows   *)
(* unchanged.                                                              *)
Accumulated == UNION {Arrivals(appended[k]) : k \in DOMAIN appended}

ClearStep ==
    /\ hdmOp' = "clear" => /\ msgs' = <<>>
                            /\ accumulated_updates' = accumulated_updates
                            /\ status' = status
    /\ (hdmOp = "clear" /\ hdmOp' \in {"some", "none"})
         => hdmOp' = "none" /\ delivered' = delivered

PushedAfterClear ==
    \A a \in (clearedAt + 1)..nAdded :
        \/ a \in Arrivals(msgs)
        \/ \E i \in 1..Len(delivered) : delivered[i] = a
        \/ a \in Accumulated

C24_ClearDropsAll == [][ClearStep]_vars /\ []PushedAfterClear

C24_Witness ==
    /\ hdmOp = "some"
    /\ cleared # {}
    /\ DOMAIN accumulated_updates # {}
    /\ \E i \in 1..Len(delivered) : delivered[i] > clearedAt

(* C25: whenever query returns Some, output entry i is computed from two   *)
(* updates of the same dst, the i-th smallest tag id of the snapshot, one  *)
(* from the back and one from the front antenna, and carries the gain and  *)
(* range of tag_settings[i]: the back reading of one tag is never combined *)
(* with the front reading of another.                                      *)
SnapshotTags == {u.dst : u \in status}

NthTag(i) ==
    CHOOSE t \in SnapshotTags :
        Cardinality({s \in SnapshotTags : IdLess(s, t)}) = i - 1

Reading(antenna, tag) == {u \in status : u.src = antenna /\ u.dst = tag}

C25_PairsOfOneTag ==
    qres.tag = "some"
    => \A i \in 1..Len(qres.val) :
         /\ i <= Cardinality(SnapshotTags)
         /\ \E b \in Reading(BACK_ANTENNA, NthTag(i)) :
              \E f \in Reading(FRONT_ANTENNA, NthTag(i)) :
                 <<qres.val[i]>> = Metadata(<<b>>, <<f>>, tag_settings[i])


Windows == DOMAIN accumulated_updates

WindowsKept == Windows \subseteq DOMAIN accumulated_updates'

TooManyKeys == Cardinality(Windows) > 2 * Len(tag_settings)

IdleTick ==
    nStatus' = nStatus + 1 /\ TooManyKeys'
    => qres'.tag = "none" /\ tdbuf' = tdbuf /\ offered' = offered

C27_WindowsNeverRemoved ==
    /\ [][WindowsKept /\ IdleTick]_vars
    /\ []({Key(u) : u \in status} = Windows)

\* one tag: a first tick appended a row, then a third key came in and the
\* next tick returned None
C27_Witness ==
    /\ Len(tag_settings) = 1
    /\ Len(tdbuf.data) = 1
    /\ Cardinality(Windows) = 3
    /\ nStatus = 2
    /\ msgs = <<>>
    /\ qres.tag = "none"


\* C28: every update pushed so far is in exactly one place: still queued,
\* returned by one next() call of the consumer, popped by one turn of a
\* get_status loop, or removed by a clear; none is in two places, none is
\* returned twice and none is gone.
Queued == Arrivals(msgs)

Returned == Range(delivered)

Popped == UNION {Arrivals(appended[k]) : k \in DOMAIN appended}

Once(q) == Len(q) = Cardinality(Arrivals(q))

C28_NoLossNoDuplicate ==
    /\ Queued \cup Returned \cup Popped \cup cleared = 1..nAdded
    /\ Queued \cap (Returned \cup Popped \cup cleared) = {}
    /\ Returned \cap (Popped \cup cleared) = {}
    /\ Popped \cap cleared = {}
    /\ Once(msgs)
    /\ Len(delivered) = Cardinality(Returned)
    /\ \A k \in DOMAIN appended :
          /\ Once(appended[k])
          /\ \A j \in DOMAIN appended \ {k} :
                Arrivals(appended[k]) \cap Arrivals(appended[j]) = {}

\* three updates pushed: one returned by next, one removed by a clear, one
\* still queued
C28_Witness ==
    /\ nAdded = 3
    /\ Len(delivered) = 1
    /\ Cardinality(cleared) = 1
    /\ Len(msgs) = 1


\* C29: computing num_updates_needed never underflows, there are at most
\* num_updates_needed rows, and for every row i the sample range
\* [i * samples_per_update, (i + 1) * samples_per_update) lies within every
\* audio file, so that post-processing never panics.
C29_PostInBounds ==
    /\ plan.tag \in {"none", "ok"}
    /\ spatial_data <= plan.num_updates_needed
    /\ postResult = "ok"
    /\ \A i \in 0..(spatial_data - 1) :
          \A f \in 1..Len(audio.sound_data) :
             (i + 1) * plan.samples_per_update <= audio.sound_data[f]


\* C30: the worker takes the stop message only between two applications of
\* f and sends a result at most once, after at least one application; once
\* the caller has the result it is the state after the last complete
\* application, at most one application was completed after the stop message
\* was sent, and none follows; a key press leads to the caller holding the
\* result with the worker joined.
StopTaken == Len(stop_rx') < Len(stop_rx)

BetweenApplications == workerPc = "check" /\ applied' = applied /\ foldVal' = foldVal

HasResult == callerPc \in {"join", "done"}

C30_FoldUntilStop ==
    /\ (callerPc = "stop") ~> (callerPc = "done" /\ workerPc = "exit")
    /\ [][StopTaken => BetweenApplications]_vars
    /\ [](/\ Len(resSent) <= 1
          /\ resSent # <<>> => applied >= 1 /\ resSent[1] = foldVal
          /\ foldVal = applied
          /\ workerPc = "exit" => resSent # <<>>
          /\ HasResult => /\ foldRes = <<applied>>
                          /\ resSent = <<applied>>
                          /\ applied - appliedAtStop \in {0, 1}
                          /\ workerPc = "exit")

\* the key was pressed during the third application: the caller has joined
\* the worker and holds the state after three applications
C30_Witness ==
    /\ callerPc = "done"
    /\ workerPc = "exit"
    /\ appliedAtStop = 2
    /\ foldRes = <<3>>

=============================================================================
